---- MODULE Spec2Model ----
(***************************************************************************)
(* crossgate-rs: service registry plugins (mongo, etcd), the registry      *)
(* facade, the load balancer and the lifecycle of run / web_service_run /  *)
(* backend_service_run, as state machines.                                 *)
(*                                                                         *)
(* Spec      : lifecycle of one process: register, renewal loop, watch     *)
(*             branch, store-side TTL, SIGINT, cancel, wait-group barrier. *)
(* FairSpec  : Spec with the fairness of the tokio scheduler, the timers   *)
(*             and the store's TTL monitor.                                *)
(* CacheSpec : one process's local cache against the store: peers register *)
(*             and unregister, the watch task applies the change events,   *)
(*             get_web_service / get_backend_service answer from the cache *)
(*             or list the store.                                          *)
(* SelectSpec : one select_address call, any algorithm and address list.   *)
(* GatewaySpec: the gateway's handler intercept on one request: the        *)
(*             interceptor chain, the routing part, lookup and forward.    *)
(* ProxySpec : the reverse proxy's call: the proxied request, the upstream *)
(*             answer, the proxied response or the upgrade.                *)
(* WatchLoopSpec: the mongo watch loop on any stream of change events.    *)
(* ForwardSpec: one forward_uri call, any forward URL and request.         *)
(* ConnectionSpec: Connection::read_frame on a peer that sends a byte      *)
(*             string and closes; ConnectionFairSpec adds the scheduler.   *)
(* CacheWritersSpec: the mongo watch loop beside the reads that list the   *)
(*             store on a cache miss.                                      *)
(* LockSpec  : the calls and the task branches of one plugin followed      *)
(*             through the guards of the cache and owned-set mutexes.      *)
(***************************************************************************)
EXTENDS Integers, Sequences, FiniteSets, TLC

\* ------------------------------------------------------------------ bounds
\* number of comma-separated names one web service registers
MaxNames == 2
\* how many times a key read back from the etcd watch is re-registered
MaxDepth == 1
\* number of ids (ObjectIds, addresses) that exist in the store's lifetime
MaxIds == 2
\* change events waiting in the watch stream
MaxEvents == 1
\* entries the backend returns for one service name
MaxLen == 2
\* addresses of one endpoint
MaxAddrs == 3
\* select calls in flight at the same time
MaxCallers == 2
\* select calls of one behaviour, and how far before its wrap the counter starts
MaxCalls == 4

\* interceptors the gateway is started with
MaxInterceptors == 2
\* characters of a request path
MaxPath == 4
\* entries the registry holds for the service a request names
MaxEntries == 2
\* addresses a request can be pinned to or forwarded to
MaxTargets == 2

\* headers of one request or response
MaxHeaders == 3
\* comma-separated tokens of a Connection header
MaxTokens == 2

\* characters of a query string
MaxQuery == 2
\* bytes the peer sends before it closes the connection
MaxWire == 3

\* ------------------------------------------------------- program constants
\* etcd.rs:9   pub(super) const LEASE: i64 = 3
LEASE == 3
\* mongo.rs:85 expire_after(Duration::from_secs(2)) on the index over "time"
MongoExpireAfter == 2
\* mongo.rs:346 and :369 tokio::time::sleep(Duration::from_secs(2))
MongoSleep == 2
\* lba.rs:32 static COUNTER: AtomicUsize, on a 64-bit target
UsizeBits == 64

Backends == {"mongo", "etcd"}
ServiceTypes == {"ApiGateway", "WebService", "BackendService"}

\* store-side expiry window of a backend
TTL(b) == IF b = "mongo" THEN MongoExpireAfter ELSE LEASE
\* sleep of the renewal loop: mongo sleeps 2 s, etcd sleeps LEASE - 1
SleepSecs(b) == IF b = "mongo" THEN MongoSleep ELSE LEASE - 1

\* A key: n is the name index (0 is an entry of another process seen by the
\* watch), d counts how many times the etcd prefix has been put in front of it.
Keys == [n : 0..MaxNames, d : 0..(MaxDepth + 1)]
OwnKey(i) == [n |-> i, d |-> 0]
PeerStoreKey == [n |-> 0, d |-> 1]

\* etcd: register()/unregister() put the prefix WEB_SERVICE or BACKEND_SERVICE
\* in front of the owned-set key; mongo: the document's _id is the key itself.
StoreKey(b, k) == IF b = "etcd" THEN [k EXCEPT !.d = @ + 1] ELSE k

Absent == [present |-> FALSE, timed |-> FALSE, age |-> 0]

VARIABLES
    backend,       \* REGISTER_TYPE
    role,          \* ServiceType passed to init_plugin
    names,         \* how many names this service registers
    mainpc,        \* position of run / web_service_run / backend_service_run
    nextName,      \* next name register_web_service will register
    regpc,         \* position inside register_service
    found,         \* main: result of count_documents in service_content_apply
    regDone,       \* owned-set keys whose register_service returned Ok
    store,         \* the remote store: key -> [present, timed, age]
    mine,          \* store keys this process has written
    inner,         \* the owned-set (self.inner)
    innerLock,     \* holder of the owned-set mutex: "free", "main", "task"
    taskpc,        \* position of the spawned background task
    timer,         \* seconds left of the renewal loop's sleep
    todo,          \* owned-set keys the running loop has still to visit
    tkey,          \* task: key whose service_content_apply is in flight
    tfound,        \* task: result of count_documents
    watchOpen,     \* the watch branch of the task is still being polled
    ctxCancelled,  \* Handle::cancel has been called
    wgCount,       \* crossbeam WaitGroup count
    signalled,     \* SIGINT was received by the select
    unregFailed,   \* some unregister RPC failed
    renewFailed,   \* some renewal RPC failed
    docs,          \* CacheSpec: the entries in the store
    cache,         \* self.cache: key -> sequence of entries
    events,        \* change events the watch stream has not delivered yet
    watch,         \* the cache's watch stream: "starting", "open", "closed"
    req,           \* the get_* call in progress
    ret,           \* what the step just taken returned to its caller
    last,          \* the event the watch loop applied last
    nextId,        \* next fresh ObjectId
    answer,        \* FacadeSpec: what plugin::get_web_service answered
    facade,        \* what Register::get_web_service returned
    COUNTER,       \* LbaSpec: the static AtomicUsize of select_address
    addresses,     \* the address list the calls select from
    callpc,        \* caller -> position inside select_address
    observed,      \* caller -> the value its fetch_add returned
    picks,         \* per select call in fetch_add order: the address picked
                   \* from the list, 0 for None and for calls on other lists
    lba,           \* SelectSpec: the LoadBalancerAlgorithm select_address is
                   \* called on
    selected,      \* what select_address returned
    gwpc,          \* GatewaySpec: position of the handler intercept
    request,       \* the request and the interceptor list it is handled with
    invoked,       \* the interceptors called so far, by position in the list
    verdicts,      \* the IntercepterType each of them returned
    gave,          \* what the self-serve function or the interrupting
                   \* interceptor handed to the handler
    routed,        \* the handler has left the chain for the routing part
    lookups,       \* the registry lookups made, by service name
    upstream,      \* the addresses the proxy was called with
    reply,         \* what intercept returned to the listener
    working,       \* the loop's local res: the working response the last
                   \* interceptor was called with, and as it left it
    ppc,           \* ProxySpec: position of the proxy's call
    preq,          \* the request call was given: headers and OnUpgrade extension
    request_upgrade_type,  \* call's local: get_upgrade_type(request.headers())
    request_upgraded,      \* call's local: the request had an OnUpgrade
    fwd,           \* the proxied request handed to the client
    presp,         \* the response the upstream gave
    bridged,       \* the copy_bidirectional task was spawned
    pout,          \* what call returned
    forward_url,   \* ForwardSpec: the URL forward_uri is called with
    freq,          \* the path and the query of the request it is called with
    url,           \* the URL it returned
    rb,            \* ConnectionSpec: Connection.rb, the read buffer
    stream,        \* Connection.stream: the bytes the peer has still to send,
                   \* and whether a read has met the end of the stream
    rfpc,          \* position inside read_frame
    rfret,         \* what read_frame returned
    holder,        \* LockSpec: mutex -> the flow that holds its guard
    flow           \* flow -> the lock steps it has still to take

lifeVars == <<backend, role, names, mainpc, nextName, regpc, found, regDone,
              store, mine, inner, innerLock, taskpc, timer, todo, tkey, tfound,
              watchOpen, ctxCancelled, wgCount, signalled, unregFailed,
              renewFailed>>

cacheVars == <<docs, cache, events, watch, req, ret, last, nextId>>

facadeVars == <<answer, facade>>

lbaVars == <<COUNTER, addresses, callpc, observed, picks>>

selVars == <<lba, selected>>

gwVars == <<gwpc, request, invoked, verdicts, gave, routed, lookups, upstream,
           reply, working>>

pxVars == <<ppc, preq, request_upgrade_type, request_upgraded, fwd, presp,
           bridged, pout>>

fuVars == <<forward_url, freq, url>>

\* the pure functions of the proxy and the tcp connection
tcVars == <<rb, stream, rfpc, rfret>>

\* the two mutexes of a plugin
lockVars == <<holder, flow>>

extraVars == <<fuVars, tcVars, lockVars>>

\* the gateway's request path: select_address, the handler and the proxy
edgeVars == <<selVars, gwVars, pxVars, extraVars>>

\* the variables the lifecycle does not touch
notLife == <<cacheVars, facadeVars, lbaVars, edgeVars>>

vars == <<lifeVars, cacheVars, facadeVars, lbaVars, edgeVars>>

\* ------------------------------------------------------------ the store

\* insert_one of MongoContent {_id, service, lba, addr, type}: no "time" field
MongoInsert(s, k) == [s EXCEPT ![k] = [present |-> TRUE, timed |-> FALSE, age |-> 0]]
\* update_one {_id} $set time = now, upsert(false)
MongoSetTime(s, k) ==
    IF s[k].present
    THEN [s EXCEPT ![k] = [present |-> TRUE, timed |-> TRUE, age |-> 0]]
    ELSE s
\* put with a freshly granted lease of LEASE seconds
EtcdPut(s, k) == [s EXCEPT ![k] = [present |-> TRUE, timed |-> TRUE, age |-> 0]]
\* delete_one / delete
StoreDelete(s, k) == [s EXCEPT ![k] = Absent]

ProcessGone == mainpc \in {"returned", "exited", "vanished"}
TaskAlive == ~ProcessGone /\ taskpc \in {"sleep", "renew", "unset"}


\* ------------------------------------------------------------ Init

NoReq == [op |-> "idle"]
NoRet == [op |-> "none"]
NoEvent == [op |-> "none"]

\* the cache part of the state before anything has happened
CacheIdle ==
    /\ docs = {}
    /\ cache = <<>>
    /\ events = <<>>
    /\ watch = "starting"
    /\ req = NoReq
    /\ ret = NoRet
    /\ last = NoEvent
    /\ nextId = 1

NoAnswer == [ok |-> FALSE, contents |-> <<>>]
NoFacade == [op |-> "none"]
Callers == 1..MaxCallers

NotSelected == [op |-> "none"]

\* select_address has not been called on its own
SelectIdle ==
    /\ lba = [alg |-> "RoundRobin", pinned |-> 0]
    /\ selected = NotSelected

\* Response<Body>: the body is a text, for the not-found answer behind a name
Body(text) == [text |-> text, name |-> <<>>]
Response(status, body) == [status |-> status, body |-> body]

\* anyhow::Result<Response<Body>> as intercept returns it
NoReply == [kind |-> "none", response |-> Response(0, Body(""))]
Ok(res) == [kind |-> "Ok", response |-> res]
Err == [kind |-> "Err", response |-> Response(0, Body(""))]

NoRequest == [n |-> 0, path |-> <<"/">>, strict |-> [present |-> FALSE, value |-> 0]]
NotGiven == [by |-> "none", result |-> NoReply]
\* no iteration of the interceptor loop is under way
NoWorking == [in |-> Response(0, Body("")), out |-> Response(0, Body(""))]

GatewayIdle ==
    /\ gwpc = "idle"
    /\ request = NoRequest
    /\ invoked = <<>>
    /\ verdicts = <<>>
    /\ gave = NotGiven
    /\ routed = FALSE
    /\ lookups = <<>>
    /\ upstream = <<>>
    /\ reply = NoReply
    /\ working = NoWorking

\* a HeaderMap: header name -> value, a value being its comma-separated tokens
NoHeaders == [x \in {} |-> <<>>]

\* Option<String> of the upgrade type
NoUpgrade == [some |-> FALSE, value |-> <<>>]

NoMessage == [given |-> FALSE, status |-> 0, headers |-> NoHeaders, on_upgrade |-> FALSE]
NotReturned == [kind |-> "none", error |-> "", response |-> NoMessage]

ProxyIdle ==
    /\ ppc = "idle"
    /\ preq = NoMessage
    /\ request_upgrade_type = NoUpgrade
    /\ request_upgraded = FALSE
    /\ fwd = NoMessage
    /\ presp = NoMessage
    /\ bridged = FALSE
    /\ pout = NotReturned

\* Option<&str> of a query, and a URL that has not been built
NoQuery == [some |-> FALSE, value |-> <<>>]
NoUrl == [built |-> FALSE, value |-> <<>>]

ForwardIdle ==
    /\ forward_url = <<>>
    /\ freq = [path |-> <<"/">>, query |-> NoQuery]
    /\ url = NoUrl

\* a connection nobody reads from
ConnectionIdle ==
    /\ rb = <<>>
    /\ stream = [wire |-> <<>>, eof |-> FALSE]
    /\ rfpc = "idle"
    /\ rfret = NoRet

Mutexes == {"cache", "inner"}
Free == <<"free", 0>>

\* the calls of the Plugin trait, made by concurrent request handlers, and
\* the branches of the spawned task
Flows == {<<op, 1>> : op \in {"register_service", "get_backend_service",
                              "renewal", "watch", "unregister"}}
            \cup {<<"get_web_service", c>> : c \in Callers}

\* both mutexes are free and no flow is under way
LocksIdle ==
    /\ holder = [m \in Mutexes |-> Free]
    /\ flow = [f \in Flows |-> <<>>]

ExtraIdle == ForwardIdle /\ ConnectionIdle /\ LocksIdle

EdgeIdle == SelectIdle /\ GatewayIdle /\ ProxyIdle /\ ExtraIdle

\* no lookup and no select call has been made
RouteIdle ==
    /\ EdgeIdle
    /\ answer = NoAnswer
    /\ facade = NoFacade
    /\ COUNTER = 0
    /\ addresses = <<>>
    /\ callpc = [c \in Callers |-> "idle"]
    /\ observed = [c \in Callers |-> 0]
    /\ picks = <<>>

LifeInit ==
    /\ backend \in Backends
    /\ role \in ServiceTypes
    /\ names \in (IF role = "WebService" THEN 1..MaxNames
                  ELSE IF role = "BackendService" THEN {1} ELSE {0})
    /\ mainpc = "start"
    /\ nextName = 1
    /\ regpc = "idle"
    /\ found = FALSE
    /\ regDone = {}
    /\ store = [k \in Keys |-> Absent]
    /\ mine = {}
    /\ inner = {}
    /\ innerLock = "free"
    /\ taskpc = "none"
    /\ timer = 0
    /\ todo = {}
    /\ tkey = {}
    /\ tfound = FALSE
    /\ watchOpen = FALSE
    /\ ctxCancelled = FALSE
    /\ wgCount = 1
    /\ signalled = FALSE
    /\ unregFailed = FALSE
    /\ renewFailed = FALSE
    /\ CacheIdle
    /\ RouteIdle

\* ------------------------------------------------- main: init and register

\* init_plugin: ApiGateway spawns the watch only and drops ctx and the
\* wait-group clone; WebService spawns the renewal task, BackendService the
\* renewal+watch task, each owning the wait-group clone.
init_plugin ==
    /\ mainpc = "start"
    /\ mainpc' = (IF role = "BackendService" THEN "make_executor" ELSE "serving")
    /\ taskpc' = (IF role = "ApiGateway" THEN "none" ELSE "sleep")
    /\ timer' = (IF role = "ApiGateway" THEN 0 ELSE SleepSecs(backend))
    /\ watchOpen' = (role # "WebService")
    /\ wgCount' = (IF role = "ApiGateway" THEN wgCount ELSE wgCount + 1)
    /\ UNCHANGED <<notLife, backend, role, names, nextName, regpc, found, regDone, store,
                   mine, inner, innerLock, todo, tkey, tfound, ctxCancelled,
                   signalled, unregFailed, renewFailed>>

\* register_web_service runs inside srf(addr), raced against SIGINT;
\* register_backend_service runs in make_executor, before the select.
Registering ==
    /\ regpc = "idle" => nextName <= names
    /\ \/ role = "WebService" /\ mainpc = "serving"
       \/ role = "BackendService" /\ mainpc = "make_executor"

\* make_service / make_executor panic when registration fails
RegisterPanics ==
    /\ mainpc' = "vanished"
    /\ UNCHANGED <<notLife, backend, role, names, nextName, found, regDone, store, mine,
                   inner, innerLock, taskpc, timer, todo, tkey, tfound,
                   watchOpen, ctxCancelled, wgCount, signalled, unregFailed,
                   renewFailed>>

\* mongo register_service, first half: mongo_content_builder pushes the new
\* entry on the owned-set before anything is written to the store.
mongo_content_builder ==
    /\ backend = "mongo" /\ Registering /\ regpc = "idle"
    /\ innerLock = "free"
    /\ inner' = inner \cup {OwnKey(nextName)}
    /\ regpc' = "count"
    /\ UNCHANGED <<notLife, backend, role, names, mainpc, nextName, found, regDone, store,
                   mine, innerLock, taskpc, timer, todo, tkey, tfound, watchOpen,
                   ctxCancelled, wgCount, signalled, unregFailed, renewFailed>>

\* service_content_apply, count_documents({_id}) and its error path
MainApplyCount ==
    /\ backend = "mongo" /\ Registering /\ regpc = "count"
    /\ \/ /\ found' = store[OwnKey(nextName)].present
          /\ regpc' = "write"
          /\ UNCHANGED <<notLife, backend, role, names, mainpc, nextName, regDone, store,
                         mine, inner, innerLock, taskpc, timer, todo, tkey,
                         tfound, watchOpen, ctxCancelled, wgCount, signalled,
                         unregFailed, renewFailed>>
       \/ /\ regpc' = "idle"
          /\ RegisterPanics

\* what the write of service_content_apply does to the store: insert_one when
\* the count was 0 (a duplicate key is an error), else $set time
ApplyFails(s, k, fnd) == ~fnd /\ s[k].present
ApplyWrite(s, k, fnd) ==
    IF fnd THEN MongoSetTime(s, k)
    ELSE IF s[k].present THEN s ELSE MongoInsert(s, k)

\* after a successful register_service: next name, or on to the select
RegisterReturnsOk(k) ==
    /\ regDone' = regDone \cup {k}
    /\ nextName' = nextName + 1
    /\ regpc' = "idle"
    /\ mainpc' = (IF role = "BackendService" /\ nextName + 1 > names
                  THEN "serving" ELSE mainpc)

MainApplyWrite ==
    /\ backend = "mongo" /\ Registering /\ regpc = "write"
    /\ LET k == OwnKey(nextName) IN
       \/ /\ ~ApplyFails(store, k, found)
          /\ store' = ApplyWrite(store, k, found)
          /\ mine' = mine \cup {k}
          /\ RegisterReturnsOk(k)
          /\ UNCHANGED <<notLife, backend, role, names, found, inner, innerLock, taskpc,
                         timer, todo, tkey, tfound, watchOpen, ctxCancelled,
                         wgCount, signalled, unregFailed, renewFailed>>
       \/ /\ regpc' = "idle"
          /\ RegisterPanics

\* etcd register_service: locks cache and the owned-set, inserts into both,
\* and keeps both guards while register() talks to the store.
EtcdRegisterInsert ==
    /\ backend = "etcd" /\ Registering /\ regpc = "idle"
    /\ innerLock = "free"
    /\ innerLock' = "main"
    /\ inner' = inner \cup {OwnKey(nextName)}
    /\ regpc' = "rpc"
    /\ UNCHANGED <<notLife, backend, role, names, mainpc, nextName, found, regDone, store,
                   mine, taskpc, timer, todo, tkey, tfound, watchOpen,
                   ctxCancelled, wgCount, signalled, unregFailed, renewFailed>>

\* etcd register(): lease_grant, lease_keep_alive, put with the lease
EtcdRegisterRpc ==
    /\ backend = "etcd" /\ Registering /\ regpc = "rpc"
    /\ LET k == OwnKey(nextName) IN
       \/ /\ store' = EtcdPut(store, StoreKey(backend, k))
          /\ mine' = mine \cup {StoreKey(backend, k)}
          /\ innerLock' = "free"
          /\ RegisterReturnsOk(k)
          /\ UNCHANGED <<notLife, backend, role, names, found, inner, taskpc, timer, todo,
                         tkey, tfound, watchOpen, ctxCancelled, wgCount,
                         signalled, unregFailed, renewFailed>>
       \/ /\ regpc' = "idle"
          /\ RegisterPanics


\* ------------------------------------------------- the background task

\* iteration order: a Vec in push order (mongo), a HashMap in any order (etcd)
Candidates(b, S) ==
    IF b = "mongo" THEN {k \in S : \A j \in S : k.n <= j.n} ELSE S

\* the task's future is dropped (it returned or panicked): the wait-group
\* clone it owns is dropped with it, and so is any mutex guard it holds
TaskEnds(how) ==
    /\ taskpc' = how
    /\ wgCount' = wgCount - 1
    /\ innerLock' = (IF innerLock = "task" THEN "free" ELSE innerLock)
    /\ watchOpen' = FALSE
    /\ todo' = {}
    /\ tkey' = {}

\* the sleep of the renewal loop is over: lock the owned-set and walk it
TaskWake ==
    /\ ~ProcessGone /\ taskpc = "sleep" /\ timer = 0
    /\ innerLock = "free"
    /\ innerLock' = "task"
    /\ taskpc' = "renew"
    /\ todo' = inner
    /\ tkey' = {}
    /\ UNCHANGED <<notLife, backend, role, names, mainpc, nextName, regpc, found, regDone,
                   store, mine, inner, timer, tfound, watchOpen, ctxCancelled,
                   wgCount, signalled, unregFailed, renewFailed>>

\* mongo service_content_renewal: service_content_apply of the next entry,
\* count_documents; an error is logged and the loop goes on
TaskApplyCount ==
    /\ ~ProcessGone /\ backend = "mongo" /\ taskpc = "renew" /\ tkey = {}
    /\ \E k \in Candidates(backend, todo) :
        \/ /\ tkey' = {k}
           /\ tfound' = store[k].present
           /\ UNCHANGED <<todo, renewFailed>>
        \/ /\ todo' = todo \ {k}
           /\ renewFailed' = TRUE
           /\ UNCHANGED <<tkey, tfound>>
    /\ UNCHANGED <<notLife, backend, role, names, mainpc, nextName, regpc, found, regDone,
                   store, mine, inner, innerLock, taskpc, timer, watchOpen,
                   ctxCancelled, wgCount, signalled, unregFailed>>

\* mongo service_content_renewal: the insert_one or update_one of the entry
TaskApplyWrite ==
    /\ ~ProcessGone /\ backend = "mongo" /\ taskpc = "renew" /\ tkey # {}
    /\ \E k \in tkey :
        /\ \/ /\ ~ApplyFails(store, k, tfound)
              /\ store' = ApplyWrite(store, k, tfound)
              /\ mine' = mine \cup {k}
              /\ UNCHANGED renewFailed
           \/ /\ renewFailed' = TRUE
              /\ UNCHANGED <<store, mine>>
        /\ todo' = todo \ {k}
        /\ tkey' = {}
    /\ UNCHANGED <<notLife, backend, role, names, mainpc, nextName, regpc, found, regDone,
                   inner, innerLock, taskpc, timer, tfound, watchOpen,
                   ctxCancelled, wgCount, signalled, unregFailed>>

\* etcd block0: register(key, sc) of the next owned entry; an error panics
TaskEtcdRegister ==
    /\ ~ProcessGone /\ backend = "etcd" /\ taskpc = "renew"
    /\ \E k \in Candidates(backend, todo) :
        \/ /\ store' = EtcdPut(store, StoreKey(backend, k))
           /\ mine' = mine \cup {StoreKey(backend, k)}
           /\ todo' = todo \ {k}
           /\ UNCHANGED <<taskpc, wgCount, innerLock, watchOpen, tkey, renewFailed>>
        \/ /\ TaskEnds("ended")
           /\ renewFailed' = TRUE
           /\ UNCHANGED <<store, mine>>
    /\ UNCHANGED <<notLife, backend, role, names, mainpc, nextName, regpc, found, regDone,
                   inner, timer, tfound, ctxCancelled, signalled, unregFailed>>

\* every owned entry was visited: release the owned-set and sleep again
TaskLoop ==
    /\ ~ProcessGone /\ taskpc = "renew" /\ todo = {} /\ tkey = {}
    /\ taskpc' = "sleep"
    /\ timer' = SleepSecs(backend)
    /\ innerLock' = "free"
    /\ UNCHANGED <<notLife, backend, role, names, mainpc, nextName, regpc, found, regDone,
                   store, mine, inner, todo, tkey, tfound, watchOpen,
                   ctxCancelled, wgCount, signalled, unregFailed, renewFailed>>

\* ------------------------------------------------- the watch branch

\* the watch is polled: by the gateway's own task, or as block1 of the
\* backend task's select
WatchPolled ==
    /\ ~ProcessGone /\ watchOpen
    /\ role = "BackendService" => taskpc \in {"sleep", "renew"}

\* etcd Put event (gateway_service_handle and block1): the key and value of
\* the event go into the owned-set
EtcdWatchPut ==
    /\ backend = "etcd" /\ WatchPolled
    /\ innerLock = "free"
    /\ \E sk \in {k \in Keys : store[k].present /\ k.d <= MaxDepth} \cup {PeerStoreKey} :
        inner' = inner \cup {sk}
    /\ UNCHANGED <<notLife, backend, role, names, mainpc, nextName, regpc, found, regDone,
                   store, mine, innerLock, taskpc, timer, todo, tkey, tfound,
                   watchOpen, ctxCancelled, wgCount, signalled, unregFailed,
                   renewFailed>>

\* etcd Delete event: the gateway removes the key from the owned-set, block1
\* of the backend task is todo!() and panics
EtcdWatchDelete ==
    /\ backend = "etcd" /\ WatchPolled
    /\ \/ /\ role = "ApiGateway"
          /\ innerLock = "free"
          /\ \E sk \in Keys : inner' = inner \ {sk}
          /\ UNCHANGED <<taskpc, wgCount, innerLock, watchOpen, todo, tkey>>
       \/ /\ role = "BackendService"
          /\ TaskEnds("ended")
          /\ UNCHANGED inner
    /\ UNCHANGED <<notLife, backend, role, names, mainpc, nextName, regpc, found, regDone,
                   store, mine, timer, tfound, ctxCancelled, signalled,
                   unregFailed, renewFailed>>

\* the watch stream ends (None or an error): the gateway's watch task ends;
\* in the backend task block1 completes, the select returns and the task is
\* over without service_unset / unregister
WatchEnd ==
    /\ WatchPolled
    /\ \/ /\ role = "ApiGateway"
          /\ watchOpen' = FALSE
          /\ UNCHANGED <<taskpc, wgCount, innerLock, todo, tkey>>
       \/ /\ role = "BackendService"
          /\ TaskEnds("ended")
    /\ UNCHANGED <<notLife, backend, role, names, mainpc, nextName, regpc, found, regDone,
                   store, mine, inner, timer, tfound, ctxCancelled, signalled,
                   unregFailed, renewFailed>>


\* ------------------------------------------------- signal and shutdown

\* the select of run / web_service_run / backend_service_run takes the
\* ctrl_c branch; the other branch (the server, srf, e.start) is dropped, and
\* with it a register_service in flight and the guards it holds
Signal ==
    /\ mainpc = "serving"
    /\ signalled' = TRUE
    /\ mainpc' = "cancel"
    /\ regpc' = "idle"
    /\ innerLock' = (IF innerLock = "main" THEN "free" ELSE innerLock)
    /\ UNCHANGED <<notLife, backend, role, names, nextName, found, regDone, store, mine,
                   inner, taskpc, timer, todo, tkey, tfound, watchOpen,
                   ctxCancelled, wgCount, unregFailed, renewFailed>>

\* the other branch of the select completes first: the function returns
\* without cancelling
ServeReturns ==
    /\ mainpc = "serving" /\ regpc = "idle"
    /\ mainpc' = "exited"
    /\ UNCHANGED <<notLife, backend, role, names, nextName, regpc, found, regDone, store,
                   mine, inner, innerLock, taskpc, timer, todo, tkey, tfound,
                   watchOpen, ctxCancelled, wgCount, signalled, unregFailed,
                   renewFailed>>

\* handle.cancel()
HandleCancel ==
    /\ mainpc = "cancel"
    /\ ctxCancelled' = TRUE
    /\ mainpc' = "wait"
    /\ UNCHANGED <<notLife, backend, role, names, nextName, regpc, found, regDone, store,
                   mine, inner, innerLock, taskpc, timer, todo, tkey, tfound,
                   watchOpen, wgCount, signalled, unregFailed, renewFailed>>

\* wg.wait(), entry: the caller's own reference is given up
WgWait ==
    /\ mainpc = "wait"
    /\ wgCount' = wgCount - 1
    /\ mainpc' = "waiting"
    /\ UNCHANGED <<notLife, backend, role, names, nextName, regpc, found, regDone, store,
                   mine, inner, innerLock, taskpc, timer, todo, tkey, tfound,
                   watchOpen, ctxCancelled, signalled, unregFailed, renewFailed>>

\* wg.wait() returns once no reference is left, and the function returns
WgWaitReturns ==
    /\ mainpc = "waiting"
    /\ wgCount = 0
    /\ mainpc' = "returned"
    /\ UNCHANGED <<notLife, backend, role, names, nextName, regpc, found, regDone, store,
                   mine, inner, innerLock, taskpc, timer, todo, tkey, tfound,
                   watchOpen, ctxCancelled, wgCount, signalled, unregFailed,
                   renewFailed>>

\* the task's select takes the ctx.done() branch: the renewal loop and the
\* watch are dropped, then service_unset / unregister locks the owned-set
TaskCancel ==
    /\ ~ProcessGone /\ ctxCancelled /\ taskpc \in {"sleep", "renew"}
    /\ innerLock \in {"free", "task"}
    /\ taskpc' = "unset"
    /\ innerLock' = "task"
    /\ todo' = inner
    /\ tkey' = {}
    /\ watchOpen' = FALSE
    /\ UNCHANGED <<notLife, backend, role, names, mainpc, nextName, regpc, found, regDone,
                   store, mine, inner, timer, tfound, ctxCancelled, wgCount,
                   signalled, unregFailed, renewFailed>>

\* service_unset: delete_one(...).unwrap() panics on an error;
\* unregister: let _ = delete(...) ignores it
TaskUnset ==
    /\ ~ProcessGone /\ taskpc = "unset"
    /\ \E k \in Candidates(backend, todo) :
        \/ /\ store' = StoreDelete(store, StoreKey(backend, k))
           /\ todo' = todo \ {k}
           /\ UNCHANGED <<taskpc, wgCount, innerLock, watchOpen, tkey, unregFailed>>
        \/ /\ unregFailed' = TRUE
           /\ UNCHANGED store
           /\ IF backend = "mongo"
              THEN TaskEnds("ended")
              ELSE /\ todo' = todo \ {k}
                   /\ UNCHANGED <<taskpc, wgCount, innerLock, watchOpen, tkey>>
    /\ UNCHANGED <<notLife, backend, role, names, mainpc, nextName, regpc, found, regDone,
                   mine, inner, timer, tfound, ctxCancelled, signalled,
                   renewFailed>>

\* drop(wg.clone()) and the end of the task, which drops its wait-group
TaskFinish ==
    /\ ~ProcessGone /\ taskpc = "unset" /\ todo = {}
    /\ TaskEnds("done")
    /\ UNCHANGED <<notLife, backend, role, names, mainpc, nextName, regpc, found, regDone,
                   store, mine, inner, timer, tfound, ctxCancelled, signalled,
                   unregFailed, renewFailed>>

\* ------------------------------------------------- time, TTL, crash

\* RPCs and lock hand-overs take no time and timers fire on time: a second
\* passes only when nothing of the process is in the middle of a step
TimeMayPass ==
    \/ ProcessGone
    \/ /\ innerLock = "free"
       /\ regpc = "idle"
       /\ ~(taskpc = "sleep" /\ timer = 0)

Older(e, ttl) == IF e.present /\ e.timed /\ e.age < ttl THEN [e EXCEPT !.age = @ + 1] ELSE e

\* one second passes
Tick ==
    /\ TimeMayPass
    /\ store' = [k \in Keys |-> Older(store[k], TTL(backend))]
    /\ timer' = (IF taskpc = "sleep" /\ timer > 0 THEN timer - 1 ELSE timer)
    /\ UNCHANGED <<notLife, backend, role, names, mainpc, nextName, regpc, found, regDone,
                   mine, inner, innerLock, taskpc, todo, tkey, tfound, watchOpen,
                   ctxCancelled, wgCount, signalled, unregFailed, renewFailed>>

\* an entry is expired once its time (its lease) is TTL seconds old; a
\* document without a "time" field is never expired
Expirable(e, ttl) == e.present /\ e.timed /\ e.age >= ttl

\* the store's TTL monitor / lease expiry removes an entry
Expire ==
    /\ \E k \in Keys :
        /\ Expirable(store[k], TTL(backend))
        /\ store' = StoreDelete(store, k)
    /\ UNCHANGED <<notLife, backend, role, names, mainpc, nextName, regpc, found, regDone,
                   mine, inner, innerLock, taskpc, timer, todo, tkey, tfound,
                   watchOpen, ctxCancelled, wgCount, signalled, unregFailed,
                   renewFailed>>

\* the process disappears (killed, host lost) without any shutdown step
Vanish ==
    /\ ~ProcessGone /\ mainpc # "start"
    /\ mainpc' = "vanished"
    /\ UNCHANGED <<notLife, backend, role, names, nextName, regpc, found, regDone, store,
                   mine, inner, innerLock, taskpc, timer, todo, tkey, tfound,
                   watchOpen, ctxCancelled, wgCount, signalled, unregFailed,
                   renewFailed>>

\* ------------------------------------------------- specification

Next ==
    \/ init_plugin
    \/ mongo_content_builder
    \/ MainApplyCount
    \/ MainApplyWrite
    \/ EtcdRegisterInsert
    \/ EtcdRegisterRpc
    \/ TaskWake
    \/ TaskApplyCount
    \/ TaskApplyWrite
    \/ TaskEtcdRegister
    \/ TaskLoop
    \/ EtcdWatchPut
    \/ EtcdWatchDelete
    \/ WatchEnd
    \/ Signal
    \/ ServeReturns
    \/ HandleCancel
    \/ WgWait
    \/ WgWaitReturns
    \/ TaskCancel
    \/ TaskUnset
    \/ TaskFinish
    \/ Tick
    \/ Expire
    \/ Vanish

Spec == LifeInit /\ [][Next]_vars


\* tokio polls every spawned task and the main future again and again, timers
\* fire, every RPC returns, and the store's TTL monitor keeps running
FairSpec ==
    /\ Spec
    /\ WF_vars(Tick)
    /\ WF_vars(Expire)
    /\ WF_vars(HandleCancel)
    /\ WF_vars(WgWait)
    /\ WF_vars(WgWaitReturns)
    /\ WF_vars(TaskCancel)
    /\ WF_vars(TaskUnset)
    /\ WF_vars(TaskFinish)

\* ------------------------------------------------- cache: data

\* two service names, the second one extending the first ("/a" and "/ab")
Services == {<<1>>, <<1, 2>>}
\* ServiceContent.type   1: web service, 2: backend service
Kinds == {1, 2}
\* an entry of the store. mongo: id is the document's _id; etcd: id is the
\* address that ends the key  <prefix><service>/<addr>
Entries == [id : 1..MaxIds, service : Services, type : Kinds]

\* str::starts_with
StartsWith(s, p) == Len(p) <= Len(s) /\ SubSeq(s, 1, Len(p)) = p

\* HashMap::contains_key / get / insert
HasKey(m, k) == k \in DOMAIN m
MapInsert(m, k, v) == [x \in (DOMAIN m) \cup {k} |-> IF x = k THEN v ELSE m[x]]

SeqToSet(q) == {q[i] : i \in 1..Len(q)}
\* Vec::retain
RECURSIVE Retain(_, _)
Retain(q, keep) ==
    IF q = <<>> THEN <<>>
    ELSE IF Head(q).id \in keep THEN <<Head(q)>> \o Retain(Tail(q), keep)
         ELSE Retain(Tail(q), keep)
\* iter().map(|item| item.id)
RECURSIVE IdsOf(_)
IdsOf(q) == IF q = <<>> THEN <<>> ELSE <<Head(q).id>> \o IdsOf(Tail(q))

\* Vec::sort on ids: ascending
RECURSIVE InsertSorted(_, _)
InsertSorted(q, x) ==
    IF q = <<>> THEN <<x>>
    ELSE IF x <= Head(q) THEN <<x>> \o q
         ELSE <<Head(q)>> \o InsertSorted(Tail(q), x)
RECURSIVE SortAsc(_)
SortAsc(q) == IF q = <<>> THEN <<>> ELSE InsertSorted(SortAsc(Tail(q)), Head(q))

\* FindOptions sort {_id: -1}: the documents of S by descending id
RECURSIVE SortedDesc(_)
SortedDesc(S) ==
    IF S = {} THEN <<>>
    ELSE LET m == CHOOSE e \in S : \A o \in S : o.id <= e.id
         IN  <<m>> \o SortedDesc(S \ {m})

\* mongo.rs PartialEq for MongoContent: eq is written with ne
MongoContentEq(a, b) == a.id # b.id
\* the provided PartialEq::ne is the negation of eq
MongoContentNe(a, b) == ~MongoContentEq(a, b)

\* an update_cache that pushes whatever the bucket holds
update_cache_always_pushes(m, key, c) ==
    IF ~HasKey(m, key) THEN MapInsert(m, key, <<c>>)
    ELSE MapInsert(m, key, Append(m[key], c))
\* mongo update_cache(key, c)
update_cache(m, key, c) ==
    IF ~HasKey(m, key) THEN MapInsert(m, key, <<c>>)
    ELSE IF ~\E i \in 1..Len(m[key]) : MongoContentNe(m[key][i], c)
         THEN MapInsert(m, key, Append(m[key], c))
         ELSE m
\* a remove_cache that stops at the first bucket holding the id
remove_cache_first_bucket(m, id) ==
    LET holding == {k \in DOMAIN m : \E i \in 1..Len(m[k]) : m[k][i].id = id} IN
    IF holding = {} THEN m
    ELSE LET first == CHOOSE k \in holding : \A o \in holding : Len(k) <= Len(o) IN
         [k \in DOMAIN m |->
             IF k = first THEN Retain(m[k], (1..MaxIds) \ {id}) ELSE m[k]]
\* mongo remove_cache(id): retain in every bucket
remove_cache(m, id) ==
    [k \in DOMAIN m |-> Retain(m[k], (1..MaxIds) \ {id})]

\* etcd cache keys: register_service inserts under "<name>/<addr>",
\* get_web_service looks up "/web/service<name>"
EtcdRegKey(name, addr) == <<"", name, addr>>
EtcdWebKey(name) == <<"/web/service", name>>
\* the key get_web_service looks up in the cache
WebCacheKey(b, k) == IF b = "mongo" THEN k ELSE EtcdWebKey(k)

\* what the store answers to the list of a cache miss:
\* mongo find {service: key, type: t} sorted by _id descending;
\* etcd get with_prefix of WEB_SERVICE + key
MongoFind(D, key, t) == SortedDesc({e \in D : e.service = key /\ e.type = t})
\* etcd answers a range in ascending key order: "/a/<addr>" < "/ab/<addr>"
RECURSIVE SortedByKey(_)
SortedByKey(S) ==
    IF S = {} THEN <<>>
    ELSE LET m == CHOOSE e \in S : \A o \in S :
                     \/ Len(e.service) < Len(o.service)
                     \/ Len(e.service) = Len(o.service) /\ e.id <= o.id
         IN  <<m>> \o SortedByKey(S \ {m})
EtcdGetPrefix(D, key) ==
    SortedByKey({e \in D : e.type = 1 /\ StartsWith(e.service, key)})

\* an event reaches this process's stream: mongo watches the collection, the
\* etcd gateway the prefix WEB_SERVICE, the etcd backend BACKEND_SERVICE
Delivered(b, r, e) ==
    \/ b = "mongo"
    \/ r = "ApiGateway" /\ e.type = 1
    \/ r = "BackendService" /\ e.type = 2

Emit(q, b, r, op, e) ==
    IF watch = "open" /\ Delivered(b, r, e) THEN Append(q, [op |-> op, e |-> e])
    ELSE q

\* ------------------------------------------------- cache: Init

\* the variables the cache does not touch
parked == <<names, mainpc, nextName, regpc, found, regDone, store, mine,
            innerLock, taskpc, timer, todo, tkey, tfound, watchOpen,
            ctxCancelled, wgCount, signalled, unregFailed, renewFailed,
            facadeVars, lbaVars, edgeVars>>

\* init_plugin has returned and the process is serving
Serving ==
    /\ names = 0
    /\ mainpc = "serving"
    /\ nextName = 1
    /\ regpc = "idle"
    /\ found = FALSE
    /\ regDone = {}
    /\ store = [k \in Keys |-> Absent]
    /\ mine = {}
    /\ innerLock = "free"
    /\ taskpc = "none"
    /\ timer = 0
    /\ todo = {}
    /\ tkey = {}
    /\ tfound = FALSE
    /\ watchOpen = FALSE
    /\ ctxCancelled = FALSE
    /\ wgCount = 1
    /\ signalled = FALSE
    /\ unregFailed = FALSE
    /\ renewFailed = FALSE

\* a gateway or a backend service right after init_plugin: the watch task is
\* spawned but has not opened its stream, owned-set and cache are empty
CacheInit ==
    /\ backend \in Backends
    /\ role \in {"ApiGateway", "BackendService"}
    /\ inner = {}
    /\ Serving
    /\ CacheIdle
    /\ RouteIdle

\* ------------------------------------------------- cache: the other processes

\* mongo ids are fresh ObjectIds; an etcd key can be put again after it is gone
FreshFor(b, e) ==
    IF b = "mongo" THEN e.id = nextId
    ELSE \A o \in docs : o.id # e.id

RoomFor(e) == (watch = "open" /\ Delivered(backend, role, e)) => Len(events) < MaxEvents

\* another process registers e: insert_one / put
PeerRegister(e) ==
    /\ e.id <= MaxIds
    /\ FreshFor(backend, e)
    /\ RoomFor(e)
    /\ docs' = docs \cup {e}
    /\ nextId' = IF backend = "mongo" THEN nextId + 1 ELSE nextId
    /\ events' = Emit(events, backend, role, "put", e)
    /\ ret' = NoRet
    /\ UNCHANGED <<backend, role, inner, parked, cache, watch, req, last>>

\* the owner of e renews it: update_one $set time / put with a new lease
EntryRenewed(e) ==
    /\ e \in docs
    /\ RoomFor(e)
    /\ events' = Emit(events, backend, role, "put", e)
    /\ ret' = NoRet
    /\ UNCHANGED <<backend, role, inner, parked, docs, cache, watch, req,
                   last, nextId>>

\* e leaves the store: unregister at shutdown, or TTL expiry
EntryRemoved(e) ==
    /\ e \in docs
    /\ RoomFor(e)
    /\ docs' = docs \ {e}
    /\ events' = Emit(events, backend, role, "delete", e)
    /\ ret' = NoRet
    /\ UNCHANGED <<backend, role, inner, parked, cache, watch, req, last,
                   nextId>>

\* ------------------------------------------------- cache: this process

\* an owned-set member. etcd keys read back from the watch carry the prefix
Own(e) == [prefixed |-> FALSE, e |-> e]
Watched(e) == [prefixed |-> TRUE, e |-> e]

\* Plugin::register_service of a backend service (register_backend_service
\* builds a ServiceContent of type 2), rpcOk: the store accepted the write.
\* mongo: mongo_content_builder pushes to the owned-set, then insert_one;
\* etcd: cache.insert("<key>/<addr>"), inner.insert, then put.
\* ret keeps the result, and the owned-set and the cache the call began with.
CacheRegisterService(e, rpcOk) ==
    /\ role = "BackendService"
    /\ inner = {}
    /\ req.op # "backend"
    /\ e.type = 2
    /\ e.id <= MaxIds
    /\ FreshFor(backend, e)
    /\ RoomFor(e)
    /\ inner' = {Own(e)}
    /\ cache' = IF backend = "etcd"
                THEN MapInsert(cache, EtcdRegKey(e.service, e.id), <<e>>)
                ELSE cache
    /\ nextId' = IF backend = "mongo" THEN nextId + 1 ELSE nextId
    /\ IF rpcOk
       THEN /\ docs' = docs \cup {e}
            /\ events' = Emit(events, backend, role, "put", e)
       ELSE UNCHANGED <<docs, events>>
    /\ ret' = [op |-> "register", ok |-> rpcOk, e |-> e,
               inner |-> inner, cache |-> cache]
    /\ UNCHANGED <<backend, role, parked, watch, req, last>>

\* the spawned task's watch() call returns the stream
WatchSubscribed ==
    /\ watch = "starting"
    /\ watch' = "open"
    /\ ret' = NoRet
    /\ UNCHANGED <<backend, role, inner, parked, docs, cache, events, req,
                   last, nextId>>

\* the etcd backend's watch branch: Delete => todo!()
WatchPanics(ev) == backend = "etcd" /\ role = "BackendService" /\ ev.op = "delete"

\* one iteration of the watch loop on the next event.
\* mongo (cache_refresh, twoway_refresh block1): Insert | Update | Replace =>
\* update_cache(service, doc), Delete => remove_cache(_id);
\* etcd (gateway_service_handle, backend block1): Put => inner.insert(key),
\* Delete => inner.remove(key) in the gateway and todo!() in the backend
WatchEvent ==
    /\ watch = "open"
    /\ events # <<>>
    /\ LET ev == Head(events) IN
       IF WatchPanics(ev)
       THEN /\ watch' = "closed"
            /\ events' = <<>>
            /\ UNCHANGED <<cache, inner, last>>
       ELSE /\ events' = Tail(events)
            /\ last' = ev
            /\ cache' = IF backend # "mongo" THEN cache
                        ELSE IF ev.op = "put"
                             THEN update_cache(cache, ev.e.service, ev.e)
                             ELSE remove_cache(cache, ev.e.id)
            /\ inner' = IF backend # "etcd" THEN inner
                        ELSE IF ev.op = "put"
                             THEN inner \cup {Watched(ev.e)}
                             ELSE inner \ {Watched(ev.e)}
            /\ UNCHANGED watch
    /\ ret' = NoRet
    /\ UNCHANGED <<backend, role, parked, docs, req, nextId>>

\* the stream ends or yields an error: the loop is left, the task is over
WatchStreamEnds ==
    /\ watch = "open"
    /\ watch' = "closed"
    /\ events' = <<>>
    /\ ret' = NoRet
    /\ UNCHANGED <<backend, role, inner, parked, docs, cache, req, last,
                   nextId>>

\* ------------------------------------------------- cache: the reads

\* a returned call. entries: what the plugin returned, ids and self: what
\* Register::get_backend_service returns after ids.sort(); seen, at0: the
\* event applied last and the store when the call began
Returned(op, key, ok, entries, self, fromCache, seen, at0) ==
    [op |-> op, key |-> key, ok |-> ok, panicked |-> FALSE,
     entries |-> entries, ids |-> SortAsc(IdsOf(entries)), self |-> self,
     fromCache |-> fromCache, seen |-> seen, at0 |-> at0]

Listing(op, key, cursor, self) ==
    [op |-> op, key |-> key, cursor |-> cursor, acc |-> <<>>, self |-> self,
     seen |-> last, at0 |-> docs]

\* Plugin::get_web_service(k).
\* mongo: cache.get(k) or list_service_content(k, 1);
\* etcd: cache.get(WEB_SERVICE + k) or get(WEB_SERVICE + k, with_prefix),
\*       the cache is not written
get_web_service(k, rpcOk) ==
    /\ req = NoReq
    /\ LET ck == WebCacheKey(backend, k) IN
       IF HasKey(cache, ck)
       THEN /\ rpcOk
            /\ ret' = Returned("web", k, TRUE, cache[ck], 0, TRUE, last, docs)
            /\ UNCHANGED req
       ELSE IF backend = "mongo"
            THEN /\ rpcOk
                 /\ req' = Listing("web", k, MongoFind(docs, k, 1), 0)
                 /\ ret' = NoRet
            ELSE /\ ret' = Returned("web", k, rpcOk,
                                    IF rpcOk THEN EtcdGetPrefix(docs, k) ELSE <<>>,
                                    0, FALSE, last, docs)
                 /\ UNCHANGED req
    /\ UNCHANGED <<backend, role, inner, parked, docs, cache, events, watch,
                   last, nextId>>

\* id of the first owned entry of service k, 0 for the empty string
SelfId(k) ==
    IF \E c \in inner : c.e.service = k
    THEN (CHOOSE c \in inner : c.e.service = k).e.id
    ELSE 0

\* Register::get_backend_service(k) over Plugin::get_backend_service(k).
\* mongo: self id from the owned-set, then cache.get(k) or
\*        list_mongo_content(k, 2) with the owned-set lock held;
\* etcd:  todo!()
get_backend_service(k) ==
    /\ req = NoReq
    /\ role = "BackendService"
    /\ inner # {}
    /\ IF backend = "etcd"
       THEN /\ ret' = [Returned("backend", k, FALSE, <<>>, 0, FALSE, last, docs)
                           EXCEPT !.panicked = TRUE]
            /\ UNCHANGED req
       ELSE IF HasKey(cache, k)
            THEN /\ ret' = Returned("backend", k, TRUE, cache[k], SelfId(k), TRUE,
                                    last, docs)
                 /\ UNCHANGED req
            ELSE /\ req' = Listing("backend", k, MongoFind(docs, k, 2), SelfId(k))
                 /\ ret' = NoRet
    /\ UNCHANGED <<backend, role, inner, parked, docs, cache, events, watch,
                   last, nextId>>

\* list_mongo_content: one turn of  while let Some(doc) = cursor.try_next()
\* with  cache.insert(doc.service, vec![doc])  (service names are not empty)
ListNext ==
    /\ req.op \in {"web", "backend"}
    /\ req.cursor # <<>>
    /\ LET doc == Head(req.cursor) IN
       /\ cache' = MapInsert(cache, doc.service, <<doc>>)
       /\ req' = [req EXCEPT !.cursor = Tail(@), !.acc = Append(@, doc)]
    /\ ret' = NoRet
    /\ UNCHANGED <<backend, role, inner, parked, docs, events, watch, last,
                   nextId>>

\* list_mongo_content: the cursor is exhausted, the call returns Ok
ListReturns ==
    /\ req.op \in {"web", "backend"}
    /\ req.cursor = <<>>
    /\ ret' = Returned(req.op, req.key, TRUE, req.acc, req.self, FALSE,
                       req.seen, req.at0)
    /\ req' = NoReq
    /\ UNCHANGED <<backend, role, inner, parked, docs, cache, events, watch,
                   last, nextId>>

\* list_mongo_content: find or try_next fails, the call returns Err
ListFails ==
    /\ req.op \in {"web", "backend"}
    /\ ret' = Returned(req.op, req.key, FALSE, <<>>, req.self, FALSE,
                       req.seen, req.at0)
    /\ req' = NoReq
    /\ UNCHANGED <<backend, role, inner, parked, docs, cache, events, watch,
                   last, nextId>>

\* ------------------------------------------------- cache: specification

CacheNext ==
    \/ \E e \in Entries : PeerRegister(e)
    \/ \E e \in Entries : EntryRenewed(e)
    \/ \E e \in Entries : EntryRemoved(e)
    \/ \E e \in Entries, rpcOk \in BOOLEAN : CacheRegisterService(e, rpcOk)
    \/ WatchSubscribed
    \/ WatchEvent
    \/ WatchStreamEnds
    \/ \E k \in Services, rpcOk \in BOOLEAN : get_web_service(k, rpcOk)
    \/ \E k \in Services : get_backend_service(k)
    \/ ListNext
    \/ ListReturns
    \/ ListFails

CacheSpec == CacheInit /\ [][CacheNext]_vars

\* ------------------------------------------ mongo: the watch loop's events
\* mongo.rs cache_refresh, twoway_refresh block1: the loop on a change stream
\* that yields any event. The collection is shared: a document can be
\* updated or replaced by any client, so an Insert | Update | Replace event
\* carries any content for its _id.

\* the events of a change stream; a Delete carries the document key only
ChangeEvents ==
    {[op |-> "put", e |-> e] : e \in Entries}
        \cup {[op |-> "delete", e |-> [id |-> i, service |-> <<1>>, type |-> 1]] :
                 i \in 1..MaxIds}

\* the variables the watch loop does not touch
watchRest == <<backend, role, inner, parked, docs, events, watch, req, nextId>>

\* a mongo gateway (cache_refresh), or a mongo backend service that has
\* registered (twoway_refresh), with the stream open and the cache empty
WatchLoopInit ==
    /\ backend = "mongo"
    /\ \/ role = "ApiGateway" /\ inner = {}
       \/ role = "BackendService"
            /\ inner = {Own([id |-> 1, service |-> <<1>>, type |-> 2])}
    /\ Serving
    /\ RouteIdle
    /\ docs = {}
    /\ cache = <<>>
    /\ events = <<>>
    /\ watch = "open"
    /\ req = NoReq
    /\ ret = NoRet
    /\ last = NoEvent
    /\ nextId = 1

\* one iteration of the loop on the event the stream yields; ret keeps the
\* cache and the owned-set the iteration began with
StreamYields(ev) ==
    /\ watch = "open"
    /\ cache' = IF ev.op = "put" THEN update_cache(cache, ev.e.service, ev.e)
                ELSE remove_cache(cache, ev.e.id)
    /\ last' = ev
    /\ ret' = [op |-> "watch", before |-> cache, inner |-> inner]
    /\ UNCHANGED watchRest

WatchLoopNext == \E ev \in ChangeEvents : StreamYields(ev)

WatchLoopSpec == WatchLoopInit /\ [][WatchLoopNext]_vars

\* ------------------------------------------ mongo: every writer of the cache
\* mongo.rs list_mongo_content, update_cache, remove_cache: the reads that
\* list the store on a cache miss run beside the watch loop of a backend
\* service (twoway_refresh block1; cache_refresh of a gateway is the same loop).

\* the stores this process reads: _id is unique in a collection
Collections == {D \in SUBSET Entries : \A a, b \in D : a.id = b.id => a = b}

\* the events the stream yields for this store: Insert | Update | Replace
\* with a stored document, Delete with any document key
StoreEvents == {ev \in ChangeEvents : ev.op = "put" => ev.e \in docs}

CacheWritersInit ==
    /\ backend = "mongo"
    /\ role = "BackendService"
    /\ inner = {Own([id |-> 1, service |-> <<1>>, type |-> 2])}
    /\ Serving
    /\ RouteIdle
    /\ docs \in Collections
    /\ cache = <<>>
    /\ events = <<>>
    /\ watch = "open"
    /\ req = NoReq
    /\ ret = NoRet
    /\ last = NoEvent
    /\ nextId = 1

CacheWritersNext ==
    \/ \E ev \in StoreEvents : StreamYields(ev)
    \/ \E k \in Services : get_web_service(k, TRUE)
    \/ \E k \in Services : get_backend_service(k)
    \/ ListNext
    \/ ListReturns
    \/ ListFails

CacheWritersSpec == CacheWritersInit /\ [][CacheWritersNext]_vars

\* ------------------------------------------------- the registry facade

\* the lba tags an entry can carry in the store
LbaTags == {"RoundRobin", "ROUNDROBIN", "Random", "Strict", "Weighted", ""}
\* addresses are numbered, 0 is the empty string
ServiceContents == [lba : LbaTags, addr : 1..MaxAddrs]

\* the sequences over S of length at most n
SeqsUpTo(S, n) == UNION {[1..k -> S] : k \in 0..n}

\* Result<Vec<ServiceContent>>: Ok with the entries, or Err
Answers == {[ok |-> TRUE, contents |-> q] : q \in SeqsUpTo(ServiceContents, MaxLen)}
               \cup {NoAnswer}

\* str::to_ascii_lowercase on the tags
to_ascii_lowercase(t) ==
    CASE t = "RoundRobin" -> "roundrobin"
      [] t = "ROUNDROBIN" -> "roundrobin"
      [] t = "Random" -> "random"
      [] t = "Strict" -> "strict"
      [] t = "Weighted" -> "weighted"
      [] OTHER -> t

RoundRobin == [alg |-> "RoundRobin", pinned |-> 0]
Random == [alg |-> "Random", pinned |-> 0]
Strict(a) == [alg |-> "Strict", pinned |-> a]

\* a conversion that knows no "strict" tag and falls back on the default
LoadBalancerAlgorithm_from_without_strict(t) ==
    LET l == to_ascii_lowercase(t) IN
    CASE l = "roundrobin" -> RoundRobin
      [] l = "random" -> Random
      [] OTHER -> RoundRobin

\* impl From<String> for LoadBalancerAlgorithm
LoadBalancerAlgorithm_from(t) ==
    LET l == to_ascii_lowercase(t) IN
    CASE l = "roundrobin" -> RoundRobin
      [] l = "random" -> Random
      [] l = "strict" -> Strict(0)
      [] OTHER -> RoundRobin

\* contents.iter().map(|c| c.addr.clone()).collect()
AddrsOf(q) == [i \in 1..Len(q) |-> q[i].addr]

\* a facade that treats an empty answer as an error
get_web_service_err_on_empty(ans) ==
    IF ans.ok /\ ans.contents # <<>>
    THEN [op |-> "get_web_service", ok |-> TRUE,
          lba |-> LoadBalancerAlgorithm_from(ans.contents[1].lba),
          addr |-> AddrsOf(ans.contents)]
    ELSE [op |-> "get_web_service", ok |-> FALSE, lba |-> RoundRobin, addr |-> <<>>]

\* Register::get_web_service on the plugin's answer: Ok((lba, Endpoint)) for
\* every Ok answer, lba parsed from contents[0].lba or from "" when there is
\* no entry; Err(ServiceError) when the plugin call failed
Register_get_web_service(ans) ==
    IF ans.ok
    THEN [op |-> "get_web_service", ok |-> TRUE,
          lba |-> LoadBalancerAlgorithm_from(
                      IF ans.contents # <<>> THEN ans.contents[1].lba ELSE ""),
          addr |-> AddrsOf(ans.contents)]
    ELSE [op |-> "get_web_service", ok |-> FALSE, lba |-> RoundRobin, addr |-> <<>>]

\* the variables the facade does not touch
facadeRest == <<lifeVars, cacheVars, lbaVars, edgeVars>>

FacadeInit ==
    /\ backend \in Backends
    /\ role = "ApiGateway"
    /\ inner = {}
    /\ Serving
    /\ CacheIdle
    /\ answer \in Answers
    /\ facade = NoFacade
    /\ COUNTER = 0
    /\ addresses = <<>>
    /\ callpc = [c \in Callers |-> "idle"]
    /\ observed = [c \in Callers |-> 0]
    /\ picks = <<>>
    /\ EdgeIdle

\* the gateway looks a service name up
Lookup ==
    /\ facade = NoFacade
    /\ facade' = Register_get_web_service(answer)
    /\ UNCHANGED <<facadeRest, answer>>

FacadeNext == Lookup

FacadeSpec == FacadeInit /\ [][FacadeNext]_vars

\* ------------------------------------------------- the load balancer

\* COUNTER holds the UsizeBits-bit word read as a two's-complement number:
\* -k stands for 2^UsizeBits - k, and the wrapping fetch_add(1) takes -1 to 0.

\* 2^k mod n
RECURSIVE Pow2Mod(_, _)
Pow2Mod(k, n) == IF k = 0 THEN 1 % n ELSE (2 * Pow2Mod(k - 1, n)) % n

\* the word c as an unsigned number, modulo n
UsizeMod(c, n) ==
    IF c >= 0 THEN c % n
    ELSE (Pow2Mod(UsizeBits, n) + (c % n)) % n

\* the variables the load balancer does not touch
lbaRest == <<lifeVars, cacheVars, facadeVars, edgeVars>>

\* a process that has made any number of select calls: the counter is a few
\* calls before its wrap or at 0; the endpoint has 0..MaxAddrs addresses
LbaInit ==
    /\ backend \in Backends
    /\ role = "ApiGateway"
    /\ inner = {}
    /\ Serving
    /\ CacheIdle
    /\ answer = NoAnswer
    /\ facade = NoFacade
    /\ COUNTER \in (0 - MaxCalls)..0
    /\ addresses \in {[i \in 1..n |-> i] : n \in 0..MaxAddrs}
    /\ callpc = [c \in Callers |-> "idle"]
    /\ observed = [c \in Callers |-> 0]
    /\ picks = <<>>
    /\ EdgeIdle

\* select_address(&[]) returns None (recorded as 0), the counter is not read
SelectNone(c) ==
    /\ callpc[c] = "idle"
    /\ addresses = <<>>
    /\ Len(picks) < MaxCalls
    /\ picks' = Append(picks, 0)
    /\ UNCHANGED <<lbaRest, COUNTER, addresses, callpc, observed>>

\* RoundRobin: COUNTER.fetch_add(1, Relaxed), one atomic read-modify-write
FetchAdd(c) ==
    /\ callpc[c] = "idle"
    /\ addresses # <<>>
    /\ Len(picks) < MaxCalls
    /\ observed' = [observed EXCEPT ![c] = COUNTER]
    /\ COUNTER' = COUNTER + 1
    /\ callpc' = [callpc EXCEPT ![c] = "fetched"]
    /\ picks' = Append(picks, addresses[UsizeMod(COUNTER, Len(addresses)) + 1])
    /\ UNCHANGED <<lbaRest, addresses>>

\* a RoundRobin select_address call for another service's endpoint: COUNTER
\* is one static of the process, shared by every address list
FetchAddElsewhere(c) ==
    /\ callpc[c] = "idle"
    /\ addresses # <<>>
    /\ Len(picks) < MaxCalls
    /\ observed' = [observed EXCEPT ![c] = COUNTER]
    /\ COUNTER' = COUNTER + 1
    /\ callpc' = [callpc EXCEPT ![c] = "fetched"]
    /\ picks' = Append(picks, 0)
    /\ UNCHANGED <<lbaRest, addresses>>

\* RoundRobin: Some(addresses[index].clone())
SelectReturns(c) ==
    /\ callpc[c] = "fetched"
    /\ callpc' = [callpc EXCEPT ![c] = "idle"]
    /\ UNCHANGED <<lbaRest, COUNTER, addresses, observed, picks>>

LbaNext ==
    \/ \E c \in Callers : SelectNone(c)
    \/ \E c \in Callers : FetchAdd(c)
    \/ \E c \in Callers : FetchAddElsewhere(c)
    \/ \E c \in Callers : SelectReturns(c)

LbaSpec == LbaInit /\ [][LbaNext]_vars

\* ------------------------------------------------- select_address

\* Option<String>
None == [some |-> FALSE, addr |-> 0]
Some(a) == [some |-> TRUE, addr |-> a]

LoadBalancerAlgorithms == {RoundRobin, Random} \cup {Strict(a) : a \in 0..MaxAddrs}

\* a Strict branch that falls back on the first address of the list
select_address_first_on_miss(l, addrs, index) ==
    IF addrs = <<>> THEN None
    ELSE IF l.alg = "Strict"
    THEN (IF l.pinned \in SeqToSet(addrs) THEN Some(l.pinned) ELSE Some(addrs[1]))
    ELSE Some(addrs[index + 1])

\* LoadBalancerAlgorithm::select_address; index is what the RoundRobin and
\* the Random branch computed (COUNTER % len, gen_range(0..len))
select_address(l, addrs, index) ==
    IF addrs = <<>> THEN None
    ELSE IF l.alg = "Strict"
    THEN (IF l.pinned \in SeqToSet(addrs) THEN Some(l.pinned) ELSE None)
    ELSE Some(addrs[index + 1])

\* the index a call can compute
Indexes(l, addrs, counter) ==
    IF addrs = <<>> \/ l.alg = "Strict" THEN {0}
    ELSE IF l.alg = "RoundRobin" THEN {UsizeMod(counter, Len(addrs))}
    ELSE 0..(Len(addrs) - 1)

\* the variables one select_address call does not touch
selRest == <<lifeVars, cacheVars, facadeVars, callpc, observed, picks, lba,
             gwVars, pxVars, extraVars>>

\* any algorithm, any address list (the pinned address 0 is the empty string,
\* which is no address of a list)
SelectInit ==
    /\ backend \in Backends
    /\ role = "ApiGateway"
    /\ inner = {}
    /\ Serving
    /\ CacheIdle
    /\ answer = NoAnswer
    /\ facade = NoFacade
    /\ COUNTER \in 0..MaxAddrs
    /\ addresses \in SeqsUpTo(1..MaxAddrs, MaxAddrs)
    /\ callpc = [c \in Callers |-> "idle"]
    /\ observed = [c \in Callers |-> 0]
    /\ picks = <<>>
    /\ lba \in LoadBalancerAlgorithms
    /\ selected = NotSelected
    /\ GatewayIdle
    /\ ProxyIdle
    /\ ExtraIdle

\* one call lba.select_address(&addresses)
Select ==
    /\ selected = NotSelected
    /\ \E index \in Indexes(lba, addresses, COUNTER) :
           selected' = [op |-> "select",
                        result |-> select_address(lba, addresses, index)]
    /\ COUNTER' = IF addresses # <<>> /\ lba.alg = "RoundRobin"
                  THEN COUNTER + 1 ELSE COUNTER
    /\ UNCHANGED <<selRest, addresses>>

SelectNext == Select

SelectSpec == SelectInit /\ [][SelectNext]_vars

\* ------------------------------------------------- the gateway's handler

IntercepterTypes == {"SelfHandle", "Redirect", "NotAuthorized", "Forbidden",
                     "Interrupt", "Next"}

\* request paths: "/" followed by characters, "a" standing for any other one
PathChars == {"/", "a"}
Paths == {q \in SeqsUpTo(PathChars, MaxPath) : q # <<>> /\ q[1] = "/"}

\* the strict header: absent, or present with a value; 0 is a value that is
\* empty or that to_str() rejects
StrictHeaders == {[present |-> FALSE, value |-> 0]}
                     \cup {[present |-> TRUE, value |-> a] : a \in 0..MaxTargets}

Requests == [n : 0..MaxInterceptors, path : Paths, strict : StrictHeaders]

\* str::split("/")
RECURSIVE Split(_)
Split(q) ==
    IF q = <<>> THEN << <<>> >>
    ELSE IF Head(q) = "/" THEN << <<>> >> \o Split(Tail(q))
    ELSE LET r == Split(Tail(q)) IN << <<Head(q)>> \o Head(r) >> \o Tail(r)

\* a name built from the first and the last part
extracting_service_first_last(path) ==
    LET parts == Tail(Split(path)) IN
    IF Len(parts) < 2 THEN <<>>
    ELSE <<"/">> \o parts[1] \o <<"/">> \o parts[Len(parts)]

\* extracting_service: the parts after the leading "/", "" when there are
\* fewer than two, else "/{parts[0]}/{parts[1]}"
extracting_service(path) ==
    LET parts == Tail(Split(path)) IN
    IF Len(parts) < 2 THEN <<>>
    ELSE <<"/">> \o parts[1] \o <<"/">> \o parts[2]

\* a body that leaves the service name out
NotFoundBody_unnamed(name) == [text |-> " not found", name |-> <<>>]

\* format!("{} not found", service_name)
NotFoundBody(name) == [text |-> " not found", name |-> name]

\* Response::new(Body::empty())
EmptyResponse == Response(200, Body(""))

\* what an interceptor does to the working response it is called with:
\* nothing, set the status, write the body
Mutations == {"none", "status", "body"}
Mutate(m, w) ==
    CASE m = "status" -> [w EXCEPT !.status = 302]
      [] m = "body" -> [w EXCEPT !.body = Body("working")]
      [] OTHER -> w

\* a loop that hands the same working response to every interceptor
WorkingIn_carried(prev) == IF prev = NoWorking THEN EmptyResponse ELSE prev.out

\* let mut res = Response::new(Body::empty()) inside the loop: the working
\* response of a turn, whatever the turn before left
WorkingIn(prev) == EmptyResponse

\* what an interceptor can leave in the working response
WorkingResponses == {Response(st, Body(b)) : st \in {200, 302}, b \in {"", "working"}}

\* what a terminating interceptor hands over: SelfHandle the result of
\* self_handle (Ok or Err) or of default_serve_http, Interrupt its response
Gifts(v) ==
    IF v = "SelfHandle"
    THEN {[by |-> "self_handle", result |-> Ok(Response(200, Body("self")))],
          [by |-> "self_handle", result |-> Err],
          [by |-> "default_serve_http", result |-> Ok(Response(200, Body("TITLE")))]}
    ELSE IF v = "Interrupt"
    THEN {[by |-> "intercepter", result |-> Ok(w)] : w \in WorkingResponses}
    ELSE {NotGiven}

\* a chain in which Redirect goes on with the next interceptor
AfterVerdict_redirect_continues(v) ==
    IF v \in {"Next", "Redirect"} THEN "continue" ELSE "return"

\* the match on the interceptor's verdict: continue, break or return
AfterVerdict(v) ==
    CASE v = "Next" -> "continue"
      [] v = "Redirect" -> "break"
      [] OTHER -> "return"

\* a chain that answers 403 for NotAuthorized
Answered_forbidden_for_both(v, g) ==
    CASE v = "NotAuthorized" -> Ok(Response(403, Body("")))
      [] v = "Forbidden" -> Ok(Response(403, Body("")))
      [] OTHER -> g.result

\* what intercept returns from inside the chain
Answered(v, g) ==
    CASE v = "NotAuthorized" -> Ok(Response(401, Body("")))
      [] v = "Forbidden" -> Ok(Response(403, Body("")))
      [] OTHER -> g.result

\* the entries the registry can hold for a name
GwTags == {"RoundRobin", "Random", "Strict"}
GwAnswers == {[ok |-> TRUE, contents |-> q] :
                 q \in SeqsUpTo([lba : GwTags, addr : 1..MaxTargets], MaxEntries)}
                 \cup {NoAnswer}

\* the filter of get_web_service_by_lba
KeptBy(l, item) ==
    CASE l.alg = "RoundRobin" -> item.lba = "RoundRobin"
      [] l.alg = "Random" -> item.lba = "Random"
      [] OTHER -> item.lba = "Strict" /\ item.addr = l.pinned

\* a lookup by algorithm that keeps every entry with the address
get_web_service_by_lba_any_tag(ans, l) ==
    IF ans.ok
    THEN [op |-> "get_web_service_by_lba", ok |-> TRUE, lba |-> l,
          addr |-> AddrsOf(SelectSeq(ans.contents, LAMBDA c : c.addr = l.pinned))]
    ELSE [op |-> "get_web_service_by_lba", ok |-> FALSE, lba |-> l, addr |-> <<>>]

\* Register::get_web_service_by_lba on the plugin's answer
Register_get_web_service_by_lba(ans, l) ==
    IF ans.ok
    THEN [op |-> "get_web_service_by_lba", ok |-> TRUE, lba |-> l,
          addr |-> AddrsOf(SelectSeq(ans.contents, LAMBDA c : KeptBy(l, c)))]
    ELSE [op |-> "get_web_service_by_lba", ok |-> FALSE, lba |-> l, addr |-> <<>>]

\* lba.hash(addresses): the select operation of the load balancer
hash(l, addrs, index) == select_address(l, addrs, index)

\* what the proxy's call can return to the handler
ProxyResults == {Ok(Response(200, Body("upstream"))), Err}

\* the variables the handler does not touch
gwRest == <<lifeVars, cacheVars, addresses, callpc, observed, picks, selVars,
            pxVars, extraVars>>

\* a serving gateway receives one request
GatewayInit ==
    /\ backend = "etcd"
    /\ role = "ApiGateway"
    /\ inner = {}
    /\ Serving
    /\ CacheIdle
    /\ answer = NoAnswer
    /\ facade = NoFacade
    /\ COUNTER = 0
    /\ addresses = <<>>
    /\ callpc = [c \in Callers |-> "idle"]
    /\ observed = [c \in Callers |-> 0]
    /\ picks = <<>>
    /\ SelectIdle
    /\ ProxyIdle
    /\ ExtraIdle
    /\ gwpc = "chain"
    /\ request \in Requests
    /\ invoked = <<>>
    /\ verdicts = <<>>
    /\ gave = NotGiven
    /\ routed = FALSE
    /\ lookups = <<>>
    /\ upstream = <<>>
    /\ reply = NoReply
    /\ working = NoWorking

\* one turn of the for loop: the next interceptor is called and its verdict
\* matched
Intercepter ==
    /\ gwpc = "chain"
    /\ Len(invoked) < request.n
    /\ \E v \in IntercepterTypes : \E g \in Gifts(v) : \E m \in Mutations :
        LET a == AfterVerdict(v)
            w == [in |-> WorkingIn(working),
                  out |-> Mutate(m, WorkingIn(working))]
        IN
        /\ v = "Interrupt" => g.result = Ok(w.out)
        /\ working' = IF v = "Interrupt"
                          \/ (a = "continue" /\ Len(invoked) + 1 < request.n)
                       THEN w ELSE NoWorking
        /\ invoked' = Append(invoked, Len(invoked) + 1)
        /\ verdicts' = Append(verdicts, v)
        /\ gwpc' = CASE a = "continue" -> "chain"
                     [] a = "break" -> "route"
                     [] OTHER -> "done"
        /\ gave' = IF a = "return" THEN g ELSE gave
        /\ reply' = IF a = "return" THEN Answered(v, g) ELSE reply
    /\ UNCHANGED <<gwRest, facadeVars, COUNTER, request, routed, lookups, upstream>>

\* the loop was left by break or by running out of interceptors
InRouting == gwpc = "route" \/ (gwpc = "chain" /\ Len(invoked) = request.n)

\* the answers the routing part gives before any lookup: the landing page,
\* 503 for a path without a service name, 400 for an empty strict header
RouteAnswers ==
    /\ InRouting
    /\ LET name == extracting_service(request.path) IN
        /\ \/ request.path = <<"/">>
           \/ name = <<>>
           \/ request.strict.present /\ request.strict.value = 0
        /\ reply' = IF request.path = <<"/">>
                    THEN Ok(Response(200, Body("TITLE")))
                    ELSE IF name = <<>>
                    THEN Ok(Response(503, Body("service unavailable or not found")))
                    ELSE Ok(Response(400, Body("strict address is empty")))
    /\ routed' = TRUE
    /\ gwpc' = "done"
    /\ UNCHANGED <<gwRest, working, facadeVars, COUNTER, request, invoked, verdicts, gave,
                   lookups, upstream>>

\* register.get_service_by_lba(name, Strict(a)) with a strict header,
\* register.get_service(name) without; Err is answered 500 with empty body
RouteLooksUp ==
    /\ InRouting
    /\ LET name == extracting_service(request.path) IN
        /\ request.path # <<"/">>
        /\ name # <<>>
        /\ ~(request.strict.present /\ request.strict.value = 0)
        /\ lookups' = Append(lookups, name)
        /\ \E ans \in GwAnswers :
            /\ answer' = ans
            /\ facade' = IF request.strict.present
                         THEN Register_get_web_service_by_lba(
                                  ans, Strict(request.strict.value))
                         ELSE Register_get_web_service(ans)
    /\ routed' = TRUE
    /\ gwpc' = IF facade'.ok THEN "found" ELSE "done"
    /\ reply' = IF facade'.ok THEN reply ELSE Ok(Response(500, Body("")))
    /\ UNCHANGED <<gwRest, working, COUNTER, request, invoked, verdicts, gave, upstream>>

\* endpoint.get_address() is empty: 503 "<name> not found"
EndpointEmpty ==
    /\ gwpc = "found"
    /\ facade.addr = <<>>
    /\ reply' = Ok(Response(503, NotFoundBody(extracting_service(request.path))))
    /\ gwpc' = "done"
    /\ UNCHANGED <<gwRest, working, facadeVars, COUNTER, request, invoked, verdicts, gave,
                   routed, lookups, upstream>>

\* the proxy is called with "http://" + the address the algorithm selects
\* (0 when it selects none); its error is answered 500 "gateway error: ..."
Forward ==
    /\ gwpc = "found"
    /\ facade.addr # <<>>
    /\ \E index \in Indexes(facade.lba, facade.addr, COUNTER) :
           upstream' = Append(upstream, hash(facade.lba, facade.addr, index).addr)
    /\ COUNTER' = IF facade.lba.alg = "RoundRobin" THEN COUNTER + 1 ELSE COUNTER
    /\ \E res \in ProxyResults :
           reply' = IF res = Err THEN Ok(Response(500, Body("gateway error")))
                    ELSE res
    /\ gwpc' = "done"
    /\ UNCHANGED <<gwRest, working, facadeVars, request, invoked, verdicts, gave, routed,
                   lookups>>

GatewayNext ==
    \/ Intercepter
    \/ RouteAnswers
    \/ RouteLooksUp
    \/ EndpointEmpty
    \/ Forward

GatewaySpec == GatewayInit /\ [][GatewayNext]_vars

\* ------------------------------------------------- the reverse proxy

HOP_HEADERS == {"connection", "te", "trailer", "keep-alive", "proxy-connection",
                "proxy-authenticate", "proxy-authorization", "transfer-encoding",
                "upgrade"}

\* the header names a message is drawn with; "x-custom" is any end-to-end one
HeaderNames == {"connection", "upgrade", "te", "keep-alive", "x-forwarded-for",
                "x-custom"}

\* the tokens a Connection header is drawn with; "" is a blank between commas
ConnectionTokens == {"upgrade", "Upgrade", "x-custom", ""}

\* header names compare and look up ignoring ASCII case
HeaderNameOf(t) == IF t \in {"Upgrade", "UPGRADE"} THEN "upgrade" ELSE t

HeaderValues(n) ==
    CASE n = "connection" ->
             SeqsUpTo(ConnectionTokens, MaxTokens) \ {<<>>}
      [] n = "upgrade" -> {<<"websocket">>, <<"h2c">>}
      [] n = "te" -> {<<"trailers">>, <<"gzip">>}
      [] n = "x-forwarded-for" -> {<<"10.0.0.1">>}
      [] OTHER -> {<<"v">>}

RECURSIVE HeaderMapsOver(_)
HeaderMapsOver(S) ==
    IF S = {} THEN {NoHeaders}
    ELSE LET n == CHOOSE x \in S : TRUE IN
         {MapInsert(m, n, v) : m \in HeaderMapsOver(S \ {n}), v \in HeaderValues(n)}

HeaderMaps ==
    UNION {HeaderMapsOver(S) : S \in {T \in SUBSET HeaderNames : Cardinality(T) <= MaxHeaders}}

\* the address of the client and of the upstream
client_ip == "192.0.2.7"

\* headers.remove(name) for every name of HOP_HEADERS
remove_hop_headers(h) == [x \in (DOMAIN h) \ HOP_HEADERS |-> h[x]]

\* Some(value of Upgrade) when a token of Connection is "upgrade" and there
\* is an Upgrade header
get_upgrade_type(h) ==
    IF /\ "connection" \in DOMAIN h
       /\ \E t \in SeqToSet(h["connection"]) : HeaderNameOf(t) = "upgrade"
       /\ "upgrade" \in DOMAIN h
    THEN [some |-> TRUE, value |-> h["upgrade"]]
    ELSE NoUpgrade

\* if there is a Connection header: remove every header it names
remove_connection_headers(h) ==
    IF "connection" \in DOMAIN h
    THEN [x \in (DOMAIN h) \
                  {HeaderNameOf(t) : t \in SeqToSet(h["connection"]) \ {""}} |-> h[x]]
    ELSE h

create_proxied_response(res) ==
    [res EXCEPT !.headers = remove_connection_headers(remove_hop_headers(@))]

\* create_proxied_request on the headers: Host, the two removals, TE and
\* Upgrade put back, X-Forwarded-For
create_proxied_request(ip, h, upgrade_type) ==
    LET contains_te_trailers_value ==
            "te" \in DOMAIN h /\ "trailers" \in SeqToSet(h["te"])
        h1 == MapInsert(h, "host", <<"upstream">>)
        h2 == remove_connection_headers(remove_hop_headers(h1))
        h3 == IF contains_te_trailers_value
              THEN MapInsert(h2, "te", <<"trailers">>) ELSE h2
        h4 == IF upgrade_type.some
              THEN MapInsert(MapInsert(h3, "upgrade", upgrade_type.value),
                             "connection", <<"UPGRADE">>)
              ELSE h3
    IN  IF "x-forwarded-for" \in DOMAIN h4
        THEN h4
        ELSE MapInsert(h4, "x-forwarded-for", <<ip>>)

\* the requests call is given and the responses an upstream gives
ProxyRequests ==
    {[given |-> TRUE, status |-> 0, headers |-> h, on_upgrade |-> u] :
        h \in HeaderMaps, u \in BOOLEAN}
ProxyResponses ==
    {[given |-> TRUE, status |-> st, headers |-> h, on_upgrade |-> st = 101] :
        h \in HeaderMaps, st \in {200, 101}}

ProxyOk(res) == [kind |-> "Ok", error |-> "", response |-> res]
ProxyError(e) == [kind |-> "Err", error |-> e, response |-> NoMessage]

\* an upgrade check that only looks at the client's stream
UpgradeAccepted_any_protocol(req_type, res_type, upgraded) == upgraded

\* call lines 265-266: the types are equal and the request had an OnUpgrade
UpgradeAccepted(req_type, res_type, upgraded) ==
    req_type = res_type /\ upgraded

\* the variables the proxy does not touch
pxRest == <<lifeVars, cacheVars, facadeVars, lbaVars, selVars, gwVars, extraVars>>

\* call(client_ip, forward_uri, request, client) has been entered
ProxyInit ==
    /\ backend = "etcd"
    /\ role = "ApiGateway"
    /\ inner = {}
    /\ Serving
    /\ CacheIdle
    /\ answer = NoAnswer
    /\ facade = NoFacade
    /\ COUNTER = 0
    /\ addresses = <<>>
    /\ callpc = [c \in Callers |-> "idle"]
    /\ observed = [c \in Callers |-> 0]
    /\ picks = <<>>
    /\ SelectIdle
    /\ GatewayIdle
    /\ ExtraIdle
    /\ ppc = "called"
    /\ preq \in ProxyRequests
    /\ request_upgrade_type = NoUpgrade
    /\ request_upgraded = FALSE
    /\ fwd = NoMessage
    /\ presp = NoMessage
    /\ bridged = FALSE
    /\ pout = NotReturned

\* lines 249-258: the upgrade type and the OnUpgrade are taken from the
\* request, the proxied request is built
CreateRequest ==
    /\ ppc = "called"
    /\ request_upgrade_type' = get_upgrade_type(preq.headers)
    /\ request_upgraded' = preq.on_upgrade
    /\ fwd' = [given |-> TRUE, status |-> 0,
               headers |-> create_proxied_request(
                               client_ip, preq.headers, get_upgrade_type(preq.headers)),
               on_upgrade |-> FALSE]
    /\ ppc' = "created"
    /\ UNCHANGED <<pxRest, preq, presp, bridged, pout>>

\* line 260: client.request(proxied_request): the request is moved into the
\* client and sent
SendRequest ==
    /\ ppc = "created"
    /\ preq' = NoMessage
    /\ fwd' = NoMessage
    /\ ppc' = "sent"
    /\ UNCHANGED <<pxRest, request_upgrade_type, request_upgraded, presp, bridged,
                   pout>>

\* line 260: client.request(proxied_request).await returns a response
UpstreamAnswers ==
    /\ ppc = "sent"
    /\ presp' \in ProxyResponses
    /\ ppc' = "responded"
    /\ UNCHANGED <<pxRest, preq, request_upgrade_type, request_upgraded, fwd,
                   bridged, pout>>

\* line 260: client.request(proxied_request).await fails
UpstreamFails ==
    /\ ppc = "sent"
    /\ pout' = ProxyError("HyperError")
    /\ ppc' = "done"
    /\ UNCHANGED <<pxRest, preq, request_upgrade_type, request_upgraded, fwd, presp,
                   bridged>>

\* line 295: any status but 101
ReturnsResponse ==
    /\ ppc = "responded"
    /\ presp.status # 101
    /\ pout' = ProxyOk(create_proxied_response(presp))
    /\ ppc' = "done"
    /\ UNCHANGED <<pxRest, preq, request_upgrade_type, request_upgraded, fwd, presp,
                   bridged>>

\* lines 283-293: 101 with another upgrade type than requested, or for a
\* request without OnUpgrade
UpgradeRefused ==
    /\ ppc = "responded"
    /\ presp.status = 101
    /\ ~UpgradeAccepted(request_upgrade_type, get_upgrade_type(presp.headers),
                        request_upgraded)
    /\ pout' = ProxyError("UpgradeError")
    /\ ppc' = "done"
    /\ UNCHANGED <<pxRest, preq, request_upgrade_type, request_upgraded, fwd, presp,
                   bridged>>

\* lines 267-282: the response's OnUpgrade resolves, the bridging task is
\* spawned and the 101 response returned as it came
UpgradeBridged ==
    /\ ppc = "responded"
    /\ presp.status = 101
    /\ UpgradeAccepted(request_upgrade_type, get_upgrade_type(presp.headers),
                       request_upgraded)
    /\ bridged' = TRUE
    /\ pout' = ProxyOk(presp)
    /\ ppc' = "done"
    /\ UNCHANGED <<pxRest, preq, request_upgrade_type, request_upgraded, fwd, presp>>

\* line 271: the response's OnUpgrade resolves to an error, which `?` returns
UpgradeFails ==
    /\ ppc = "responded"
    /\ presp.status = 101
    /\ UpgradeAccepted(request_upgrade_type, get_upgrade_type(presp.headers),
                       request_upgraded)
    /\ pout' = ProxyError("HyperError")
    /\ ppc' = "done"
    /\ UNCHANGED <<pxRest, preq, request_upgrade_type, request_upgraded, fwd, presp,
                   bridged>>

ProxyNext ==
    \/ CreateRequest
    \/ SendRequest
    \/ UpstreamAnswers
    \/ UpstreamFails
    \/ ReturnsResponse
    \/ UpgradeRefused
    \/ UpgradeBridged
    \/ UpgradeFails

ProxySpec == ProxyInit /\ [][ProxyNext]_vars

\* ------------------------------------------------- forward_uri

\* str::split(c): the pieces between the occurrences of c
RECURSIVE SplitBy(_, _)
SplitBy(q, c) ==
    IF q = <<>> THEN << <<>> >>
    ELSE IF Head(q) = c THEN << <<>> >> \o SplitBy(Tail(q), c)
    ELSE LET r == SplitBy(Tail(q), c) IN << <<Head(q)>> \o Head(r) >> \o Tail(r)

\* queries are strings over a key character, "=" and "&"
QueryChars == {"a", "=", "&"}
Queries == SeqsUpTo(QueryChars, MaxQuery)

\* forward URLs: a base with or without trailing "/", with or without query
ForwardUrls ==
    {b \o t : b \in {<<"h">>, <<"h", "/">>},
              t \in {<<>>} \cup {<<"?">> \o q : q \in Queries}}

\* what forward_uri reads of the request: uri().path() and uri().query()
ForwardRequests ==
    [path : {<<"/">>, <<"/", "p">>},
     query : {NoQuery} \cup {[some |-> TRUE, value |-> q] : q \in Queries}]

\* el.split('=') -> (parts[0], parts[1] or "")
QueryItem(el) ==
    LET parts == SplitBy(el, "=") IN
    [key |-> parts[1], value |-> IF Len(parts) > 1 THEN parts[2] ELSE <<>>]

\* the for loop of forward_uri: "&key=value" for every item whose key is not
\* one of the forward URL's keys
RECURSIVE PushMissing(_, _)
PushMissing(items, forward_keys) ==
    IF items = <<>> THEN <<>>
    ELSE LET it == QueryItem(Head(items)) IN
         (IF it.key \in forward_keys THEN <<>>
          ELSE <<"&">> \o it.key \o <<"=">> \o it.value)
         \o PushMissing(Tail(items), forward_keys)

\* the last character taken off when it is c
StripLast(q, c) ==
    IF q # <<>> /\ q[Len(q)] = c THEN SubSeq(q, 1, Len(q) - 1) ELSE q

\* a merge that appends every pair of the request, known key or not
forward_uri_appends_all(u, r) ==
    LET split_url == SplitBy(u, "?")
        base_url == StripLast(split_url[1], "/")
        forward_url_query == IF Len(split_url) > 1 THEN split_url[2] ELSE <<>>
        query == IF r.query.some THEN r.query.value ELSE <<>>
    IN  IF forward_url_query # <<>> \/ query # <<>>
        THEN IF forward_url_query = <<>>
             THEN base_url \o r.path \o <<"?">> \o query
             ELSE StripLast(base_url \o r.path \o <<"?">> \o forward_url_query
                                \o PushMissing(SplitBy(query, "&"), {}),
                            "&")
        ELSE base_url \o r.path

\* forward_uri(forward_url, req)
forward_uri(u, r) ==
    LET split_url == SplitBy(u, "?")
        base_url == StripLast(split_url[1], "/")
        forward_url_query == IF Len(split_url) > 1 THEN split_url[2] ELSE <<>>
        query == IF r.query.some THEN r.query.value ELSE <<>>
        forward_query_items ==
            {QueryItem(el).key : el \in SeqToSet(SplitBy(forward_url_query, "&"))}
    IN  IF forward_url_query # <<>> \/ query # <<>>
        THEN IF forward_url_query = <<>>
             THEN base_url \o r.path \o <<"?">> \o query
             ELSE StripLast(base_url \o r.path \o <<"?">> \o forward_url_query
                                \o PushMissing(SplitBy(query, "&"), forward_query_items),
                            "&")
        ELSE base_url \o r.path

\* the variables forward_uri does not touch
fuRest == <<lifeVars, cacheVars, facadeVars, lbaVars, selVars, gwVars, pxVars,
           tcVars, lockVars>>

\* any forward URL, any request
ForwardInit ==
    /\ backend = "etcd"
    /\ role = "ApiGateway"
    /\ inner = {}
    /\ Serving
    /\ CacheIdle
    /\ answer = NoAnswer
    /\ facade = NoFacade
    /\ COUNTER = 0
    /\ addresses = <<>>
    /\ callpc = [c \in Callers |-> "idle"]
    /\ observed = [c \in Callers |-> 0]
    /\ picks = <<>>
    /\ SelectIdle
    /\ GatewayIdle
    /\ ProxyIdle
    /\ forward_url \in ForwardUrls
    /\ freq \in ForwardRequests
    /\ url = NoUrl
    /\ ConnectionIdle
    /\ LocksIdle

\* one call forward_uri(forward_url, &request)
ForwardUri ==
    /\ url = NoUrl
    /\ url' = [built |-> TRUE, value |-> forward_uri(forward_url, freq)]
    /\ UNCHANGED <<fuRest, forward_url, freq>>

ForwardNext == ForwardUri

ForwardSpec == ForwardInit /\ [][ForwardNext]_vars

\* ------------------------------------------- tcp: Connection::read_frame
\* net/src/tcp/connection.rs, net/src/tcp/frame.rs

\* the bytes on the wire: "1" and "2" open a frame of that many payload
\* bytes, "x" is the frame that ends the conversation, "e" is no frame at all
Bytes == {"1", "2", "x", "e"}
Wires == SeqsUpTo(Bytes, MaxWire)

PayloadLen(b) == IF b = "1" THEN 1 ELSE 2

\* Frame::read of a length-prefixed frame on the cursor over rb: the result
\* and the cursor's position afterwards. Where the cursor stands when the
\* frame is found incomplete is IncompletePositions.
FrameRead(buf) ==
    IF buf = <<>> THEN [res |-> "Incomplete", pos |-> 0]
    ELSE IF buf[1] = "x" THEN [res |-> "Exit", pos |-> 1]
    ELSE IF buf[1] = "e" THEN [res |-> "ParseError", pos |-> 1]
    ELSE IF Len(buf) >= 1 + PayloadLen(buf[1])
         THEN [res |-> "Ok", pos |-> 1 + PayloadLen(buf[1])]
         ELSE [res |-> "Incomplete", pos |-> 0]

\* Frame is a trait the connection's user implements: a reader that finds
\* the frame incomplete may have moved the cursor over any part of what it
\* was given (the length header, the payload bytes that are there) or not
\* at all
IncompletePositions(buf) == 0..Len(buf)

\* self.rb.advance(n)
Advance(buf, n) == SubSeq(buf, n + 1, Len(buf))

\* parse_frame: the frame reader's result as a Result<Option<F>, ConnectionError>
parse_frame(buf) ==
    LET r == FrameRead(buf) IN
    CASE r.res = "Ok" -> [op |-> "Ok", item |-> SubSeq(buf, 1, r.pos)]
      [] r.res = "Incomplete" -> [op |-> "Err", e |-> "FrameIncomplete"]
      [] r.res = "Exit" -> [op |-> "Err", e |-> "Fin"]
      [] OTHER -> [op |-> "Err", e |-> "FrameError"]

\* the variables the connection does not touch
tcRest == <<lifeVars, cacheVars, facadeVars, lbaVars, selVars, gwVars, pxVars,
           fuVars, lockVars>>

\* a fresh connection to a peer that sends any byte string and then closes
ConnectionInit ==
    /\ backend = "etcd"
    /\ role = "ApiGateway"
    /\ inner = {}
    /\ Serving
    /\ CacheIdle
    /\ answer = NoAnswer
    /\ facade = NoFacade
    /\ COUNTER = 0
    /\ addresses = <<>>
    /\ callpc = [c \in Callers |-> "idle"]
    /\ observed = [c \in Callers |-> 0]
    /\ picks = <<>>
    /\ SelectIdle
    /\ GatewayIdle
    /\ ProxyIdle
    /\ ForwardIdle
    /\ rb = <<>>
    /\ stream \in {[wire |-> w, eof |-> FALSE] : w \in Wires}
    /\ rfpc = "idle"
    /\ rfret = NoRet
    /\ LocksIdle

\* the handler calls conn.read_frame(&frame): the first call, or the next one
\* after a frame was returned
ReadFrame ==
    /\ rfpc = "idle" \/ (rfpc = "returned" /\ rfret.op = "Ok")
    /\ rfpc' = "parse"
    /\ rfret' = NoRet
    /\ UNCHANGED <<tcRest, rb, stream>>

\* the loop's match self.parse_frame(frame).await: a frame or an error other
\* than FrameIncomplete is returned; rb is advanced by the cursor's position
ParseReturns ==
    /\ rfpc = "parse"
    /\ parse_frame(rb) # [op |-> "Err", e |-> "FrameIncomplete"]
    /\ rb' = Advance(rb, FrameRead(rb).pos)
    /\ rfret' = parse_frame(rb)
    /\ rfpc' = "returned"
    /\ UNCHANGED <<tcRest, stream>>

\* ConnectionError::FrameIncomplete => {}: on to the read; rb was advanced
\* by the cursor's position in parse_frame all the same
ParseIncomplete ==
    /\ rfpc = "parse"
    /\ parse_frame(rb) = [op |-> "Err", e |-> "FrameIncomplete"]
    /\ \E pos \in IncompletePositions(rb) : rb' = Advance(rb, pos)
    /\ rfpc' = "read"
    /\ UNCHANGED <<tcRest, stream, rfret>>

\* self.stream.read_buf(&mut self.rb).await is Ok(n), n > 0: n bytes of what
\* the peer sent are appended to rb, and the loop goes round
ReadBytes ==
    /\ rfpc = "read"
    /\ \E n \in 1..Len(stream.wire) :
         /\ rb' = rb \o SubSeq(stream.wire, 1, n)
         /\ stream' = [stream EXCEPT !.wire = Advance(stream.wire, n)]
    /\ rfpc' = "parse"
    /\ UNCHANGED <<tcRest, rfret>>

\* read_buf is Ok(0): the peer has closed and everything it sent was read.
\* The count is not looked at: the loop goes round
ReadEof ==
    /\ rfpc = "read"
    /\ stream.wire = <<>>
    /\ stream' = [stream EXCEPT !.eof = TRUE]
    /\ rfpc' = "parse"
    /\ UNCHANGED <<tcRest, rb, rfret>>

\* read_buf is Err(e): return Err(ConnectionError::IoError(e.to_string()))
ReadFails ==
    /\ rfpc = "read"
    /\ rfret' = [op |-> "Err", e |-> "IoError"]
    /\ rfpc' = "returned"
    /\ UNCHANGED <<tcRest, rb, stream>>

ConnectionNext ==
    \/ ReadFrame
    \/ ParseReturns
    \/ ParseIncomplete
    \/ ReadBytes
    \/ ReadEof
    \/ ReadFails

ConnectionSpec == ConnectionInit /\ [][ConnectionNext]_vars

\* the runtime polls the task that is in read_frame, and the socket gives
\* what it has: bytes, or the end of the stream; an I/O error may never come
ConnectionFairSpec ==
    /\ ConnectionSpec
    /\ WF_vars(ParseReturns)
    /\ WF_vars(ParseIncomplete)
    /\ WF_vars(ReadBytes)
    /\ WF_vars(ReadEof)

\* ------------------------------------------------- the plugin's mutexes
\* etcd.rs and mongo.rs: self.cache and self.inner are Arc<futures::lock::Mutex>
\* shared by every clone of the plugin. A flow is one async call or one
\* branch of the spawned task; it is followed through the guards it takes:
\* a guard bound with let lives to the end of its block, a guard that is a
\* temporary to the end of its statement.

Lock(m) == [do |-> "lock", m |-> m]
Unlock(m) == [do |-> "unlock", m |-> m]
Rpc == [do |-> "rpc", m |-> "none"]
\* the future was dropped by the select
Gone == <<[do |-> "gone", m |-> "none"]>>

\* a list that takes the owned-set guard for every document
list_mongo_content_locks_inner ==
    {<<Rpc>>,
     <<Rpc, Lock("inner"), Lock("cache"), Unlock("cache"), Unlock("inner"), Rpc>>}

\* mongo.rs list_mongo_content: find, then per document
\* self.cache.lock().await.insert(..), until try_next yields None
list_mongo_content ==
    {<<Rpc>>,
     <<Rpc, Lock("cache"), Unlock("cache"), Rpc>>}

\* mongo.rs, by operation.
\* register_service: mongo_content_builder (inner, a temporary), then
\*     service_content_apply;
\* get_web_service: cache in the if let, then list_service_content;
\* get_backend_service: let inner = .. held to the end, cache in the if let,
\*     then list_mongo_content;
\* service_content_renewal and service_unset: let contents = inner held
\*     across service_content_apply / delete_one for each entry;
\* the watch loop: update_cache / remove_cache
MongoScripts(op) ==
    CASE op = "register_service" -> {<<Lock("inner"), Unlock("inner"), Rpc>>}
      [] op = "get_web_service" ->
             {<<Lock("cache"), Unlock("cache")>>}
                 \cup {<<Lock("cache"), Unlock("cache")>> \o l : l \in list_mongo_content}
      [] op = "get_backend_service" ->
             {<<Lock("inner"), Lock("cache"), Unlock("cache"), Unlock("inner")>>}
                 \cup {<<Lock("inner"), Lock("cache"), Unlock("cache")>> \o l
                           \o <<Unlock("inner")>> : l \in list_mongo_content}
      [] op = "watch" -> {<<Lock("cache"), Unlock("cache")>>}
      [] OTHER -> {<<Lock("inner"), Unlock("inner")>>,
                   <<Lock("inner"), Rpc, Unlock("inner")>>}

\* etcd.rs, by operation.
\* register_service: let cache, let inner, then register; the guards drop
\*     in reverse order when the call returns;
\* get_web_service: let cache held across client.get on a miss;
\* get_backend_service: todo!(), no guard is taken;
\* the renewal loop and unregister: let inner held across register / delete
\*     for each entry;
\* the watch loop: let inner around insert / remove
EtcdScripts(op) ==
    CASE op = "register_service" ->
             {<<Lock("cache"), Lock("inner"), Rpc, Unlock("inner"), Unlock("cache")>>}
      [] op = "get_web_service" ->
             {<<Lock("cache"), Unlock("cache")>>,
              <<Lock("cache"), Rpc, Unlock("cache")>>}
      [] op = "get_backend_service" -> {}
      [] op = "watch" -> {<<Lock("inner"), Unlock("inner")>>}
      [] OTHER -> {<<Lock("inner"), Unlock("inner")>>,
                   <<Lock("inner"), Rpc, Unlock("inner")>>}

Scripts(b, op) == IF b = "mongo" THEN MongoScripts(op) ELSE EtcdScripts(op)

\* the variables the locks do not touch
lockRest == <<lifeVars, cacheVars, facadeVars, lbaVars, selVars, gwVars, pxVars,
             fuVars, tcVars>>

\* a backend service after init_plugin: both mutexes free, no flow under way
LockInit ==
    /\ backend \in Backends
    /\ role = "BackendService"
    /\ inner = {}
    /\ Serving
    /\ CacheIdle
    /\ RouteIdle

Rest(f) == Tail(flow[f])

\* a call is made, or a loop of the spawned task starts its next turn
Begin(f) ==
    /\ flow[f] = <<>>
    /\ f[1] # "unregister"
    /\ \E sc \in Scripts(backend, f[1]) : flow' = [flow EXCEPT ![f] = sc]
    /\ UNCHANGED <<lockRest, holder>>

\* mutex.lock().await is granted when the mutex is free; the flow stays at
\* the lock while another guard is alive
Acquire(f) ==
    /\ flow[f] # <<>>
    /\ Head(flow[f]).do = "lock"
    /\ holder[Head(flow[f]).m] = Free
    /\ holder' = [holder EXCEPT ![Head(flow[f]).m] = f]
    /\ flow' = [flow EXCEPT ![f] = Rest(f)]
    /\ UNCHANGED lockRest

\* the guard is dropped
Release(f) ==
    /\ flow[f] # <<>>
    /\ Head(flow[f]).do = "unlock"
    /\ holder' = [holder EXCEPT ![Head(flow[f]).m] = Free]
    /\ flow' = [flow EXCEPT ![f] = Rest(f)]
    /\ UNCHANGED lockRest

\* the store answers the call the flow awaits
RpcReturns(f) ==
    /\ flow[f] # <<>>
    /\ Head(flow[f]).do = "rpc"
    /\ flow' = [flow EXCEPT ![f] = Rest(f)]
    /\ UNCHANGED <<lockRest, holder>>

\* tokio::select! takes the ctx.done() branch: the futures of the renewal
\* loop and of the watch loop are dropped with the guards they hold, then
\* the handler calls service_unset / unregister
CtxDone ==
    /\ flow[<<"unregister", 1>>] = <<>>
    /\ flow[<<"renewal", 1>>] # Gone
    /\ \E sc \in Scripts(backend, "unregister") :
           flow' = [flow EXCEPT ![<<"renewal", 1>>] = Gone,
                                ![<<"watch", 1>>] = Gone,
                                ![<<"unregister", 1>>] = sc]
    /\ holder' = [m \in Mutexes |->
                     IF holder[m] \in {<<"renewal", 1>>, <<"watch", 1>>}
                     THEN Free ELSE holder[m]]
    /\ UNCHANGED lockRest

LockNext ==
    \/ \E f \in Flows : Begin(f)
    \/ \E f \in Flows : Acquire(f)
    \/ \E f \in Flows : Release(f)
    \/ \E f \in Flows : RpcReturns(f)
    \/ CtxDone

LockSpec == LockInit /\ [][LockNext]_vars

\* ------------------------------------------------- claims

\* C1: after a signal-driven shutdown has completed with every unregister RPC
\* succeeding, no entry this process wrote is left in the store.
C1_NoEntryAfterShutdown ==
    (mainpc = "returned" /\ signalled /\ ~unregFailed)
        => \A sk \in mine : ~store[sk].present

\* C2: while the process is running, its renewal loop is running and no
\* renewal RPC has failed, every entry whose register returned Ok is present
\* in the store (it is never removed by expiry between two renewals).
C2_EntryStaysPresent ==
    (~ProcessGone /\ ~signalled /\ ~renewFailed /\ taskpc \in {"sleep", "renew"})
        => \A k \in regDone : store[StoreKey(backend, k)].present

\* C3: once the process has vanished, every entry whose register had returned
\* is eventually removed from the store by TTL expiry.
C3_VanishedEntriesExpire ==
    \A i \in 1..MaxNames :
        (mainpc = "vanished" /\ OwnKey(i) \in regDone)
            ~> ~store[StoreKey(backend, OwnKey(i))].present


\* a background task that is running under a cancelled context leaves its
\* loop only through the ctx.done() branch
TasksObserveCancel ==
    [][(~ProcessGone /\ ctxCancelled /\ taskpc \in {"sleep", "renew"}
            /\ taskpc' \notin {"sleep", "renew"})
        => taskpc' = "unset"]_vars

\* no watch loop is still being polled when the function has returned
WatchObservesCancel == mainpc = "returned" => ~watchOpen

\* the function does not return before the task that owns a wait-group
\* clone has finished
ReturnsAfterTasks ==
    mainpc = "returned" => (ctxCancelled /\ taskpc \in {"none", "done", "ended"})

\* after SIGINT the function returns (unless the process is killed first)
SignalLeadsToReturn == signalled ~> (mainpc \in {"returned", "vanished"})

\* C4: after SIGINT the context is cancelled, every background task observes
\* the cancellation, the function eventually returns, and it does not return
\* before every task holding a wait-group ticket has finished.
C4_ShutdownCompletes ==
    /\ TasksObserveCancel
    /\ []WatchObservesCancel
    /\ []ReturnsAfterTasks
    /\ SignalLeadsToReturn

\* C5: in a gateway, a get_web_service(s) that begins after the watch task has
\* applied a Put event for the web entry e of s contains e and is answered from
\* the cache; one that begins after a Delete event for e was applied, with e
\* gone from the store, does not contain e.
C5_WatchKeepsCacheCurrent ==
    (/\ role = "ApiGateway"
     /\ ret.op = "web" /\ ret.ok
     /\ ret.seen.op # "none"
     /\ ret.seen.e.type = 1 /\ ret.seen.e.service = ret.key)
        => /\ ret.seen.op = "put"
                => (ret.fromCache /\ ret.seen.e \in SeqToSet(ret.entries))
           /\ (ret.seen.op = "delete" /\ ret.seen.e \notin ret.at0)
                => ret.seen.e \notin SeqToSet(ret.entries)

\* C6: when a get_web_service(k) that missed the cache returns the listed
\* entries E, the cache holds a bucket for k with exactly E.
C6_MissPopulatesBucket ==
    (ret.op = "web" /\ ret.ok /\ ~ret.fromCache /\ ret.entries # <<>>)
        => /\ HasKey(cache, WebCacheKey(backend, ret.key))
           /\ SeqToSet(cache[WebCacheKey(backend, ret.key)]) = SeqToSet(ret.entries)

\* C7: every entry get_web_service(key) returns is of kind WebService and is
\* registered under the service name key.
C7_OnlyWebEntriesOfKey ==
    (ret.op = "web" /\ ret.ok)
        => \A i \in 1..Len(ret.entries) :
               ret.entries[i].type = 1 /\ ret.entries[i].service = ret.key

\* C8: a call of Register::get_backend_service(k) made while the store did not
\* change and no change event is waiting returns the process's own id and the
\* ascending ids of all backend entries registered under k, whether it was
\* answered from the cache or from a list of the store.
C8_BackendIdsComplete ==
    (/\ ret.op = "backend"
     /\ ret.ok \/ ret.panicked
     /\ events = <<>>
     /\ docs = ret.at0)
        => /\ ~ret.panicked
           /\ ret.self = SelfId(ret.key)
           /\ ret.ids = SortAsc(IdsOf(SortedDesc({e \in docs :
                                   e.type = 2 /\ e.service = ret.key})))

RoundRobinWindows ==
    LET n == Len(addresses) IN
    \A i \in 1..Len(picks) :
        (i + n - 1 <= Len(picks) /\ \A j \in i..(i + n - 1) : picks[j] # 0) =>
            /\ \A j \in i..(i + n - 2) : picks[j + 1] = (picks[j] % n) + 1
            /\ {picks[j] : j \in i..(i + n - 1)} = 1..n

\* the first four calls of a process, all on a list of two addresses, hit
\* 1, 2, 1, 2
FourCallsTwoAddresses ==
    (/\ Len(addresses) = 2
     /\ COUNTER = Len(picks)
     /\ Len(picks) >= 4
     /\ \A j \in 1..4 : picks[j] # 0)
        => SubSeq(picks, 1, 4) = <<1, 2, 1, 2>>

\* calls in flight at the same time have observed different counter values
DistinctObserved ==
    \A c, d \in Callers :
        (c # d /\ callpc[c] = "fetched" /\ callpc[d] = "fetched")
            => observed[c] # observed[d]

\* C10: RoundRobin on a fixed list of n addresses: every window of n
\* consecutive select calls returns each address once, in cyclic list order;
\* the first four calls over two addresses return 1, 2, 1, 2; concurrent
\* calls observe distinct counter values.
C10_RoundRobinWindows ==
    /\ RoundRobinWindows
    /\ FourCallsTwoAddresses
    /\ DistinctObserved

\* C11: a select call with Strict(a) returns a exactly when a is in the address
\* list (None on the empty list and whenever a is not in it), and never any
\* other address.
C11_StrictSelectsOnlyPinned ==
    (selected # NotSelected /\ lba.alg = "Strict") =>
        /\ (selected.result = Some(lba.pinned)) <=> (lba.pinned \in SeqToSet(addresses))
        /\ (lba.pinned \notin SeqToSet(addresses)) => selected.result = None
        /\ selected.result.some => selected.result.addr = lba.pinned

\* Strict(a) was called on a list that holds a behind another address
C11_PinnedPicked ==
    /\ selected # NotSelected
    /\ lba.alg = "Strict"
    /\ Len(addresses) >= 2
    /\ addresses[1] # lba.pinned
    /\ lba.pinned \in SeqToSet(addresses)
    /\ selected.result = Some(lba.pinned)

\* Strict(a) was called on a non-empty list without a
C11_PinnedMissing ==
    /\ selected # NotSelected
    /\ lba.alg = "Strict"
    /\ addresses # <<>>
    /\ lba.pinned \notin SeqToSet(addresses)
    /\ selected.result = None

\* the chain is over: the handler is in the routing part or has returned
ChainOver == gwpc \in {"route", "found", "done"} \/ Len(invoked) = request.n

AllNext(q) == \A j \in 1..Len(q) : q[j] = "Next"

\* C12: interceptors are called in declaration order; interceptor k is called
\* iff every earlier one returned Next, so none is called after the first
\* verdict other than Next; after Redirect, as after a list of Next verdicts
\* only, the handler goes on with the routing part and does not answer from
\* the chain.
C12_ChainInDeclarationOrder ==
    /\ invoked = [k \in 1..Len(invoked) |-> k]
    /\ Len(verdicts) = Len(invoked)
    /\ \A k \in 1..Len(invoked) : AllNext(SubSeq(verdicts, 1, k - 1))
    /\ ChainOver =>
           \A k \in 1..request.n :
               (k \in SeqToSet(invoked)) <=>
                   (k - 1 <= Len(verdicts) /\ AllNext(SubSeq(verdicts, 1, k - 1)))
    /\ (verdicts # <<>> /\ verdicts[Len(verdicts)] = "Redirect") =>
           /\ gwpc \in {"route", "found", "done"}
           /\ gave = NotGiven
           /\ gwpc = "done" => routed
    /\ (Len(verdicts) = request.n /\ AllNext(verdicts)) =>
           /\ gave = NotGiven
           /\ gwpc = "done" => routed
    /\ routed => \/ (verdicts # <<>> /\ verdicts[Len(verdicts)] = "Redirect")
                 \/ (Len(verdicts) = request.n /\ AllNext(verdicts))

\* the first of two interceptors returned Redirect: the second was not called
\* and the request was routed
C12_RedirectSkipsTheRest ==
    /\ request.n = 2
    /\ verdicts = <<"Redirect">>
    /\ invoked = <<1>>
    /\ routed
    /\ gwpc = "done"

\* C13: when the chain ends with NotAuthorized, Forbidden, SelfHandle or
\* Interrupt the handler returns 401 with empty body, 403 with empty body,
\* what the self-serve function returned, or the interceptor's working
\* response; it makes no registry lookup and does not call the proxy.
C13_ChainAnswers ==
    (verdicts # <<>> /\ verdicts[Len(verdicts)] \notin {"Next", "Redirect"}) =>
        LET v == verdicts[Len(verdicts)] IN
        /\ gwpc = "done"
        /\ v = "NotAuthorized" => reply = Ok(Response(401, Body("")))
        /\ v = "Forbidden" => reply = Ok(Response(403, Body("")))
        /\ v = "SelfHandle" =>
               gave.by \in {"self_handle", "default_serve_http"} /\ reply = gave.result
        /\ v = "Interrupt" =>
               gave.by = "intercepter" /\ gave.result.kind = "Ok" /\ reply = gave.result
        /\ lookups = <<>>
        /\ upstream = <<>>
        /\ ~routed

\* the second interceptor returned NotAuthorized
C13_NotAuthorizedAnswered ==
    /\ verdicts = <<"Next", "NotAuthorized">>
    /\ reply = Ok(Response(401, Body("")))
    /\ lookups = <<>>
    /\ upstream = <<>>

\* the number of segments of a path: one behind every "/"
Segments(path) == Cardinality({i \in 1..Len(path) : path[i] = "/"})

\* C14: a routed request whose path has fewer than two segments and is not
\* "/" is answered 503 "service unavailable or not found" without a lookup;
\* every lookup is made for the name "/<a>/<b>" of the first two segments.
C14_ServiceNameFromTwoSegments ==
    /\ (gwpc = "done" /\ routed /\ request.path # <<"/">>
            /\ Segments(request.path) < 2) =>
           /\ reply = Ok(Response(503, Body("service unavailable or not found")))
           /\ lookups = <<>>
    /\ lookups # <<>> =>
           LET parts == Tail(Split(request.path)) IN
           /\ Segments(request.path) >= 2
           /\ lookups = << <<"/">> \o parts[1] \o <<"/">> \o parts[2] >>

\* the path "/a" was answered 503
C14_OneSegmentRefused ==
    /\ request.path = <<"/", "a">>
    /\ routed
    /\ reply = Ok(Response(503, Body("service unavailable or not found")))
    /\ lookups = <<>>

\* the path "//a/" was looked up as "//a"
C14_ThreeSegmentsLookedUp ==
    /\ request.path = <<"/", "/", "a", "/">>
    /\ lookups = << <<"/", "/", "a">> >>

\* the service has an entry tagged Strict with the address a
HasStrictEntry(contents, a) ==
    \E i \in 1..Len(contents) : contents[i].lba = "Strict" /\ contents[i].addr = a

\* C15: a request with the non-empty strict header a whose lookup succeeded
\* is forwarded to a, and to a only, if the service has an entry tagged Strict
\* with the address a; otherwise it is answered 503 and the proxy is not
\* called. It is never forwarded to another address.
C15_StrictHeaderPins ==
    (request.strict.present /\ request.strict.value # 0 /\ gwpc = "done"
        /\ facade # NoFacade /\ facade.ok) =>
        LET a == request.strict.value IN
        /\ HasStrictEntry(answer.contents, a) => upstream = <<a>>
        /\ ~HasStrictEntry(answer.contents, a) =>
               upstream = <<>> /\ reply.kind = "Ok" /\ reply.response.status = 503
        /\ \A i \in 1..Len(upstream) : upstream[i] = a

\* the service has a RoundRobin entry first and a Strict entry with the
\* header's address, and the request went to that address
C15_PinnedForwarded ==
    /\ request.strict.present
    /\ request.strict.value = 2
    /\ facade # NoFacade
    /\ facade.ok
    /\ Len(answer.contents) = 2
    /\ answer.contents[1] = [lba |-> "RoundRobin", addr |-> 1]
    /\ answer.contents[2] = [lba |-> "Strict", addr |-> 2]
    /\ upstream = <<2>>
    /\ gwpc = "done"

\* the service has the header's address under a RoundRobin entry only: 503
C15_UnpinnedRefused ==
    /\ request.strict.present
    /\ request.strict.value = 1
    /\ facade # NoFacade
    /\ facade.ok
    /\ answer.contents = << [lba |-> "RoundRobin", addr |-> 1] >>
    /\ upstream = <<>>
    /\ reply = Ok(Response(503, NotFoundBody(lookups[1])))

\* C16: a request that reaches the lookup for a name without any registered
\* entry is answered 503 "<name> not found" and the proxy is not called.
C16_EmptyEndpointNotFound ==
    (gwpc = "done" /\ lookups # <<>> /\ answer.ok /\ answer.contents = <<>>) =>
        /\ reply = Ok(Response(503, [text |-> " not found", name |-> lookups[1]]))
        /\ upstream = <<>>

\* "/a/a" without strict header, nothing registered
C16_NothingRegistered ==
    /\ gwpc = "done"
    /\ request.path = <<"/", "a", "/", "a">>
    /\ ~request.strict.present
    /\ lookups = << <<"/", "a", "/", "a">> >>
    /\ answer.ok
    /\ answer.contents = <<>>
    /\ reply.response.status = 503
    /\ upstream = <<>>

\* C17: whatever the interceptors, the self-serve function, the registry and
\* the upstream call do, the handler returns a response and never an error.
C17_AlwaysAResponse == gwpc = "done" => reply.kind = "Ok"

\* the header names a Connection header lists
ListedIn(h) ==
    IF "connection" \in DOMAIN h
    THEN {HeaderNameOf(t) : t \in SeqToSet(h["connection"]) \ {""}}
    ELSE {}

\* C18: the proxied request has no header whose name is a token of the
\* incoming request's Connection header, and a response that is not 101 is
\* returned without any header named in the upstream response's Connection
\* header.
C18_ConnectionListedHeadersRemoved ==
    /\ ppc = "created" =>
           \A n \in ListedIn(preq.headers) : n \notin DOMAIN fwd.headers
    /\ (ppc = "done" /\ pout.kind = "Ok" /\ presp.status # 101) =>
           \A n \in ListedIn(presp.headers) : n \notin DOMAIN pout.response.headers

\* the same for the names that are not hop-by-hop headers themselves, which
\* create_proxied_request never puts back
C18_ListedEndToEndHeadersRemoved ==
    /\ ppc = "created" =>
           \A n \in ListedIn(preq.headers) \ HOP_HEADERS : n \notin DOMAIN fwd.headers
    /\ (ppc = "done" /\ pout.kind = "Ok" /\ presp.status # 101) =>
           \A n \in ListedIn(presp.headers) \ HOP_HEADERS :
               n \notin DOMAIN pout.response.headers

\* C19: the proxied request's X-Forwarded-For is the client's address when the
\* incoming request has none, and "<old value>, <client_ip>" when it has one.
C19_ForwardedForAppended ==
    ppc = "created" =>
        /\ "x-forwarded-for" \in DOMAIN fwd.headers
        /\ fwd.headers["x-forwarded-for"] =
               IF "x-forwarded-for" \in DOMAIN preq.headers
               THEN preq.headers["x-forwarded-for"] \o <<client_ip>>
               ELSE <<client_ip>>

\* the part for a request without the header
C19_ForwardedForSetWhenAbsent ==
    (ppc = "created" /\ "x-forwarded-for" \notin DOMAIN preq.headers) =>
        /\ "x-forwarded-for" \in DOMAIN fwd.headers
        /\ fwd.headers["x-forwarded-for"] = <<client_ip>>

\* the upstream answered 101 with the upgrade type the request asked for, and
\* the request had an OnUpgrade
Negotiated ==
    /\ request_upgrade_type = get_upgrade_type(presp.headers)
    /\ request_upgraded

\* C20 as stated: after a 101 the bridging task is spawned and the 101
\* response returned iff the upgrade types are equal and the request had an
\* upgrade stream; every other 101 ends in UpgradeError without a task.
C20_BridgesIffNegotiated ==
    (ppc = "done" /\ presp.given /\ presp.status = 101) =>
        /\ (bridged /\ pout = ProxyOk(presp)) <=> Negotiated
        /\ ~Negotiated => (pout = ProxyError("UpgradeError") /\ ~bridged)

\* C20: after a 101 the bridging task is spawned only if the upgrade types are
\* equal and the request had an upgrade stream, and then the 101 response is
\* returned as it came; with equal types and a stream the call either does
\* that or, when the upstream's upgrade fails, returns HyperError; a 101 with
\* another type or for a request without stream ends in UpgradeError; no
\* failing call leaves a bridging task.
C20_BridgesOnlyWhenNegotiated ==
    (ppc = "done" /\ presp.given /\ presp.status = 101) =>
        /\ bridged => (Negotiated /\ pout = ProxyOk(presp))
        /\ pout.kind = "Ok" => (bridged /\ pout = ProxyOk(presp))
        /\ Negotiated => \/ (bridged /\ pout = ProxyOk(presp))
                         \/ (~bridged /\ pout = ProxyError("HyperError"))
        /\ ~Negotiated => (pout = ProxyError("UpgradeError") /\ ~bridged)

\* a websocket upgrade was requested and granted, the streams are bridged
C20_WebsocketBridged ==
    /\ ppc = "done"
    /\ request_upgrade_type = [some |-> TRUE, value |-> <<"websocket">>]
    /\ request_upgraded
    /\ presp.status = 101
    /\ get_upgrade_type(presp.headers) = request_upgrade_type
    /\ bridged
    /\ pout = ProxyOk(presp)

\* the upstream switched to another protocol than the one requested
C20_OtherProtocolRefused ==
    /\ ppc = "done"
    /\ request_upgrade_type = [some |-> TRUE, value |-> <<"websocket">>]
    /\ request_upgraded
    /\ presp.status = 101
    /\ get_upgrade_type(presp.headers) = [some |-> TRUE, value |-> <<"h2c">>]
    /\ ~bridged
    /\ pout = ProxyError("UpgradeError")

\* the query of a URL: what follows its "?"
QueryOf(u) == LET parts == SplitBy(u, "?") IN IF Len(parts) > 1 THEN parts[2] ELSE <<>>

\* the (key, value) pairs of a request query; no query and "" have none
RECURSIVE PairsOf(_)
PairsOf(items) ==
    IF items = <<>> THEN <<>>
    ELSE <<QueryItem(Head(items))>> \o PairsOf(Tail(items))
RequestPairs(r) ==
    IF r.query.some /\ r.query.value # <<>>
    THEN PairsOf(SplitBy(r.query.value, "&")) ELSE <<>>

\* "&k=v" for the pairs whose key is not among keys
RECURSIVE AppendedPairs(_, _)
AppendedPairs(pairs, keys) ==
    IF pairs = <<>> THEN <<>>
    ELSE (IF Head(pairs).key \in keys THEN <<>>
          ELSE <<"&">> \o Head(pairs).key \o <<"=">> \o Head(pairs).value)
         \o AppendedPairs(Tail(pairs), keys)

KeysOf(q) == {QueryItem(el).key : el \in SeqToSet(SplitBy(q, "&"))}

\* C21: the query of the URL forward_uri returns is the forward URL's query
\* followed by "&k=v" for exactly the request's pairs whose key is not in the
\* forward URL's query (the request's query itself when the forward URL has
\* none); without request pairs nothing is appended; the result never ends in
\* "&".
C21_QueryMerged ==
    url.built =>
        LET fq == QueryOf(forward_url) IN
        /\ RequestPairs(freq) = <<>> => QueryOf(url.value) = StripLast(fq, "&")
        /\ (RequestPairs(freq) # <<>> /\ fq # <<>>) =>
               QueryOf(url.value) =
                   StripLast(fq \o AppendedPairs(RequestPairs(freq), KeysOf(fq)), "&")
        /\ (RequestPairs(freq) # <<>> /\ fq = <<>>) =>
               StripLast(QueryOf(url.value), "&") = StripLast(freq.query.value, "&")
        /\ url.value[Len(url.value)] # "&"

\* the part about a request without query pairs
C21_NothingAppendedWithoutPairs ==
    (url.built /\ RequestPairs(freq) = <<>>) =>
        QueryOf(url.value) = StripLast(QueryOf(forward_url), "&")

\* the part about the last character
C21_NeverEndsInAmpersand ==
    url.built => url.value[Len(url.value)] # "&"

\* the part about a request with pairs on a forward URL with a query
C21_MissingKeysAppended ==
    (url.built /\ RequestPairs(freq) # <<>> /\ QueryOf(forward_url) # <<>>) =>
        QueryOf(url.value) =
            StripLast(QueryOf(forward_url)
                          \o AppendedPairs(RequestPairs(freq), KeysOf(QueryOf(forward_url))),
                      "&")

\* the keys of a request's query pairs
KeysIn(r) == {RequestPairs(r)[i].key : i \in 1..Len(RequestPairs(r))}

\* r adds no query key that the URL u does not have already
AddsNoKey(r, u) == KeysIn(r) \subseteq KeysOf(QueryOf(u))

C22_SameRequestSamePath ==
    (url.built /\ freq.path # <<"/">>) => forward_uri(url.value, freq) = url.value

\* C23: read_frame terminates on every input: every call returns, with a
\* frame, with the frame reader's Exit or ParseError, with an I/O error, or
\* because the peer closed while the buffered bytes are an incomplete frame.
C23_ReadFrameTerminates == (rfpc = "parse") ~> (rfpc = "returned")

\* C23: once a read has met the end of the stream the loop does not go round
\* again: read_frame has returned
C23_ReturnsAtEof == stream.eof => rfpc = "returned"

\* a call returns the frame the peer sent
C23_FrameReturned ==
    /\ rfpc = "returned"
    /\ rfret = [op |-> "Ok", item |-> <<"1", "2">>]

\* the bucket of key k in cache m, empty when there is none
BucketOf(m, k) == IF HasKey(m, k) THEN m[k] ELSE <<>>
HoldsId(q, id) == \E i \in 1..Len(q) : q[i].id = id

\* C24: an Insert, Update or Replace event for entry e adds e to the bucket of
\* e's service when the bucket holds no entry with e's id, and otherwise
\* replaces the entry with that id by e.
C24_EventContentCached ==
    (ret.op = "watch" /\ last.op = "put") =>
        LET e == last.e
            old == BucketOf(ret.before, e.service)
        IN  /\ HasKey(cache, e.service)
            /\ cache[e.service] =
                 IF HoldsId(old, e.id)
                 THEN [i \in 1..Len(old) |-> IF old[i].id = e.id THEN e ELSE old[i]]
                 ELSE Append(old, e)

\* the first half of C24: e is added when its id is not in the bucket
C24_AddedWhenIdAbsent ==
    (/\ ret.op = "watch" /\ last.op = "put"
     /\ ~HoldsId(BucketOf(ret.before, last.e.service), last.e.id)) =>
        /\ HasKey(cache, last.e.service)
        /\ cache[last.e.service] = Append(BucketOf(ret.before, last.e.service), last.e)

\* the cached content of an id is the content of the latest event for it
C24_LatestContentCached ==
    (ret.op = "watch" /\ last.op = "put") =>
        \A k \in DOMAIN cache : \A i \in 1..Len(cache[k]) :
            cache[k][i].id = last.e.id => cache[k][i] = last.e

Cached(e) == \E k \in DOMAIN cache : \E i \in 1..Len(cache[k]) : cache[k][i] = e

\* the store has acknowledged e: it holds e, the watch stream is about to
\* deliver the event of e's write, or the listing in progress has found e
Acknowledged(e) ==
    \/ e \in docs
    \/ events # <<>> /\ Head(events) = [op |-> "put", e |-> e]
    \/ req.op \in {"web", "backend"} /\ e \in SeqToSet(req.cursor)

\* C26: every entry in the cache is one the store has acknowledged (within
\* the last TTL): the cache never holds an entry the store never accepted, so
\* an entry enters the cache only when the store has acknowledged it.
C26_CachedEntriesAcknowledged ==
    [][\A e \in Entries :
           (~Cached(e) /\ Cached(e)') => (Acknowledged(e) \/ e \in docs')]_vars

\* the owned-set keys this process has passed to register_service
Registered == {OwnKey(i) : i \in 1..names}

\* C27: the owned-set is changed only by register and unregister: at all
\* times it contains only entries this process itself registered.
C27_OwnedSetOnlyOwnEntries == inner \subseteq Registered

\* C27: processing a watch event leaves the owned-set unchanged
C27_WatchLeavesOwnedSet == [][(EtcdWatchPut \/ EtcdWatchDelete) => inner' = inner]_vars

\* the background task is over and its wait-group ticket is released
TicketReleased == taskpc \in {"ended", "done"}

\* C28: the task's wait-group ticket is released only after the task has
\* unregistered all owned entries: when the task is over, however it ended,
\* no owned entry is left in the store.
C28_TicketAfterUnregister ==
    TicketReleased => \A k \in inner : ~store[StoreKey(backend, k)].present

\* C29: a failed renewal RPC does not stop the renewal task: after the step in
\* which a renewal fails the task is still in its renewal loop and holds its
\* wait-group ticket.
C29_FailedRenewalKeepsTask ==
    [][(~renewFailed /\ renewFailed') => (taskpc' = "renew" /\ wgCount' = wgCount)]_vars

\* C30: no task holds the owned-set mutex while it is suspended on a backend
\* RPC: not register_service during register(), not the renewal loop during
\* service_content_apply.
C30_NoMutexAcrossRpc ==
    /\ regpc = "rpc" => innerLock # "main"
    /\ tkey # {} => innerLock # "task"

\* C31: on Interrupt the response sent to the client is the working response
\* exactly as the interrupting interceptor left it, and that interceptor was
\* handed a fresh empty working response: the reply is what one interceptor
\* makes of an empty response, whatever the interceptors before it did.
C31_InterruptReturnsOwnWorking ==
    (verdicts # <<>> /\ verdicts[Len(verdicts)] = "Interrupt") =>
        /\ gwpc = "done"
        /\ reply = Ok(working.out)
        /\ working.in = EmptyResponse
        /\ reply.response \in {Mutate(m, EmptyResponse) : m \in Mutations}

\* the second interceptor interrupts after the first returned Next
C31_InterruptedAfterNext ==
    /\ verdicts = <<"Next", "Interrupt">>
    /\ reply = Ok(Response(200, Body("working")))
    /\ working.in = EmptyResponse

\* e is in the bucket of its service
InBucket(m, e) == HasKey(m, e.service) /\ \E i \in 1..Len(m[e.service]) : m[e.service][i] = e

\* C32: under any interleaving of a cache-miss get with the watch task, an
\* entry the watch task has put into the bucket of its service stays there
\* until the watch task processes another event: no step of a store list
\* drops it.
C32_WatchedEntryStays ==
    [][(last.op = "put" /\ InBucket(cache, last.e) /\ last' = last)
           => InBucket(cache', last.e)]_vars

\* C33: when the store write of register_service fails, owned-set and cache
\* are left as they were before the call: an entry is in the owned-set (and,
\* for etcd, in the cache) only if the register call that created it
\* returned success.
C33_FailedRegisterLeavesNothing ==
    (ret.op = "register" /\ ~ret.ok) => (inner = ret.inner /\ cache = ret.cache)

\* the addresses picked for this service, in call order
OwnPicks == SelectSeq(picks, LAMBDA a : a # 0)

\* C34: the sequence of addresses RoundRobin chooses for the requests of one
\* service is the same whether or not RoundRobin selections for another
\* service are interleaved with them: it is the sequence the same calls get
\* when no other selection is made.
C34_OtherServicesDoNotInterfere ==
    addresses # <<>> =>
        LET start == COUNTER - Len(picks) IN
        \A k \in 1..Len(OwnPicks) :
            OwnPicks[k] = addresses[UsizeMod(start + k - 1, Len(addresses)) + 1]

\* a request without strict header was routed to a service whose first entry
\* carries the tag "Strict", and the proxy was called
StrictServiceForwarded ==
    /\ gwpc = "done"
    /\ upstream # <<>>
    /\ ~request.strict.present
    /\ answer.ok
    /\ answer.contents # <<>>
    /\ answer.contents[1].lba = "Strict"

\* C35: for a service whose first returned entry carries the lba tag "Strict",
\* get_web_service resolves the algorithm to Strict with the empty pinned
\* address, and the selection over the service's (non-empty) addresses yields
\* no address: without a strict header none of its addresses is picked.
C35_StrictTagPicksNothing ==
    StrictServiceForwarded =>
        /\ facade.ok
        /\ facade.lba = Strict(0)
        /\ facade.addr = AddrsOf(answer.contents)
        /\ upstream[Len(upstream)] = 0
        /\ \A i \in 1..Len(upstream) : upstream[i] \notin SeqToSet(facade.addr)

\* such a service with two addresses was asked for
C35_StrictServiceTwoAddresses ==
    /\ StrictServiceForwarded
    /\ Len(facade.addr) = 2
    /\ facade.addr[1] # facade.addr[2]

\* C36: after any sequence of store lists, watch Insert / Update / Replace
\* events and watch Delete events, no cache bucket contains two entries with
\* the same id.
C36_NoDuplicateIdInBucket ==
    \A k \in DOMAIN cache :
        \A i, j \in 1..Len(cache[k]) : cache[k][i].id = cache[k][j].id => i = j

\* while a list is under way, a watch event added a second entry to the
\* bucket the list has written
C36_BucketGrewBesideList ==
    /\ req.op \in {"web", "backend"}
    /\ ret # NoRet
    /\ ret.op = "watch"
    /\ last.op = "put"
    /\ \E k \in DOMAIN cache :
        /\ Len(cache[k]) = 2
        /\ HasKey(ret.before, k)
        /\ Len(ret.before[k]) = 1
        /\ ret.before[k][1] \in SeqToSet(req.acc)

\* the flow waits at a lock whose guard is alive
Blocked(f) ==
    /\ flow[f] # <<>>
    /\ Head(flow[f]).do = "lock"
    /\ holder[Head(flow[f]).m] # Free
WaitsOn(f) == holder[Head(flow[f]).m]

\* C37: within one plugin no interleaving of register_service,
\* get_web_service, get_backend_service, the renewal loop, the watch task and
\* unregister reaches a deadlock on the cache and owned-set mutexes: no flows
\* wait for each other (with two mutexes a cycle of waiting flows has at most
\* two members), no two flows hold one mutex each while waiting for the
\* other's, and no flow waits for a mutex it holds itself.
C37_NoDeadlockOnMutexes ==
    /\ \A f, g \in Flows :
           ~(Blocked(f) /\ WaitsOn(f) = g /\ Blocked(g) /\ WaitsOn(g) = f)
    /\ \A f, g \in Flows :
           ~(/\ holder["cache"] = f /\ Blocked(f) /\ Head(flow[f]).m = "inner"
             /\ holder["inner"] = g /\ Blocked(g) /\ Head(flow[g]).m = "cache")
    /\ \A f \in Flows : Blocked(f) => WaitsOn(f) # f

\* a flow holds one mutex and waits for the other, whose guard another flow
\* keeps across a store call
C37_HoldsOneWaitsForOther ==
    \E f, g \in Flows :
        /\ f # g
        /\ \E m \in Mutexes : holder[m] = f
        /\ Blocked(f)
        /\ WaitsOn(f) = g
        /\ Head(flow[g]).do = "rpc"

\* C38: when the frame reader reports Incomplete, parse_frame leaves the
\* connection's read buffer unchanged: every byte received so far is still
\* there for the next parse attempt.
C38_IncompleteKeepsBuffer ==
    [][(rfpc = "parse" /\ rfpc' = "read") => rb' = rb]_vars

====
